---- MODULE Spec2Model ----
(***************************************************************************)
(* go-sarah-line: the LINE adapter of the sarah bot framework.             *)
(*                                                                         *)
(* Two parts of adapter.go are modelled.                                   *)
(*   - The webhook side: Run/listen, the default event handler's loop over *)
(*     a batch of events, EventToUserInput and SourceToSenderKey.          *)
(*   - The reply side: the response constructors, SendMessage and reply.   *)
(*                                                                         *)
(* A Go string that the code inspects character by character (message     *)
(* text, postback data, the help and abort commands) is a sequence of      *)
(* one-character strings; identifiers and tokens that are only copied or   *)
(* concatenated are TLA+ strings.  A Go value held in an interface is a    *)
(* record whose Kind field is its dynamic Go type.                         *)
(***************************************************************************)
EXTENDS Naturals, Sequences, FiniteSets, TLC

VARIABLES
    config,        \* the *Config the adapter was built with
    pc,            \* "init" | "listening" | "handling" | "stopped"
    events,        \* the batch handed to the event handler
    idx,           \* position of the handler's range loop in the batch
    handled,       \* what the loop did with each event it has passed
    enqueued,      \* the inputs passed to enqueueInput, in call order
    enqueueErrs,   \* how many of those calls returned a non-nil error
    logs,          \* messages written by log.Errorf while handling the batch
    notified,      \* errors passed to Run's notifyErr
    sends,         \* one record per SendMessage invocation, in call order
    adapter,       \* the *Adapter: its client and its eventHandler
    building,      \* the NewAdapter call in progress and what it returned
    served,        \* one record per request the listener has served
    runCtx         \* the context given to Run: "active" | "canceled"

vars == <<config, pc, events, idx, handled, enqueued, enqueueErrs, logs, notified, sends,
          adapter, building, served, runCtx>>

(***************************************************************************)
(* Bounds of the model.                                                    *)
(***************************************************************************)
MaxBatch == 3      \* longest batch of events in one webhook delivery
MaxSends == 2      \* SendMessage invocations in one behaviour
MaxLatency == 6    \* longest time, in seconds, the reply endpoint takes to answer
MaxOptions == 2    \* options given to one NewAdapter call
MaxRequests == 3   \* requests and replies while one listener is up
MaxDeliveries == 2 \* deliveries handled at the same time

(***************************************************************************)
(* Go values.                                                              *)
(***************************************************************************)
Nil == [Kind |-> "nil"]
NoErr == "<nil>"

\* adapter.go: var ErrUnrecognizedEventSource
ErrUnrecognizedEventSource == "unrecognized event source type is given"

\* linebot.EventSourceType
EventSourceTypeUser == "user"
EventSourceTypeGroup == "group"
EventSourceTypeRoom == "room"

\* linebot.EventType
EventTypeMessage == "message"
EventTypePostback == "postback"
EventTypeFollow == "follow"

\* linebot.MessageType
MessageTypeImage == "image"
MessageTypeVideo == "video"
MessageTypeAudio == "audio"

(***************************************************************************)
(* strings.TrimSpace: drop leading and trailing white space.               *)
(***************************************************************************)
\* A text is a sequence of characters, each a string: the character itself
\* when it is printable ASCII or one of \t \n \r \f, its code point ("U+00A0")
\* otherwise.  unicode.IsSpace: the white space of Latin-1 and the characters
\* of the Unicode property White_Space.
IsSpace(c) ==
    c \in {" ", "\t", "\n", "\r", "\f", "U+000B", "U+0085", "U+00A0",
           "U+1680", "U+2000", "U+2001", "U+2002", "U+2003", "U+2004", "U+2005",
           "U+2006", "U+2007", "U+2008", "U+2009", "U+200A", "U+2028", "U+2029",
           "U+202F", "U+205F", "U+3000"}

RECURSIVE TrimLeft(_)
TrimLeft(s) ==
    IF s = <<>> THEN s
    ELSE IF IsSpace(Head(s)) THEN TrimLeft(Tail(s))
    ELSE s

RECURSIVE TrimRight(_)
TrimRight(s) ==
    IF s = <<>> THEN s
    ELSE IF IsSpace(s[Len(s)]) THEN TrimRight(SubSeq(s, 1, Len(s) - 1))
    ELSE s

TrimSpace(s) == TrimRight(TrimLeft(s))

(***************************************************************************)
(* Config                                                                  *)
(***************************************************************************)
DotHelp == <<".", "h", "e", "l", "p">>
DotAbort == <<".", "a", "b", "o", "r", "t">>
Hello == <<"h", "e", "l", "l", "o">>

NewConfig == [HelpCommand |-> DotHelp, AbortCommand |-> DotAbort]

\* The configurations an adapter is built with here: the default one, one
\* with the help command unset, one with both commands the same string.
Configs ==
    { NewConfig,
      [HelpCommand |-> <<>>, AbortCommand |-> DotAbort],
      [HelpCommand |-> DotHelp, AbortCommand |-> DotHelp] }

(***************************************************************************)
(* Webhook events (linebot.Event) delivered to the handler.                *)
(***************************************************************************)
EventSource(type, userID, groupID, roomID) ==
    [Type |-> type, UserID |-> userID, GroupID |-> groupID, RoomID |-> roomID]

SrcUser == EventSource(EventSourceTypeUser, "U1", "", "")
SrcGroup == EventSource(EventSourceTypeGroup, "U1", "G1", "")
SrcGroupOther == EventSource(EventSourceTypeGroup, "U2", "G1", "")
SrcRoom == EventSource(EventSourceTypeRoom, "U1", "", "R1")
SrcUnknown == EventSource("device", "U1", "", "")

Sources == {SrcUser, SrcGroup, SrcGroupOther, SrcRoom, SrcUnknown}

TextMessage(id, text) == [Kind |-> "*linebot.TextMessage", ID |-> id, Text |-> text]
ImageMessage(id) == [Kind |-> "*linebot.ImageMessage", ID |-> id]
VideoMessage(id) == [Kind |-> "*linebot.VideoMessage", ID |-> id]
AudioMessage(id) == [Kind |-> "*linebot.AudioMessage", ID |-> id]
FileMessage(id) == [Kind |-> "*linebot.FileMessage", ID |-> id]
LocationMessage(id, title) ==
    [Kind |-> "*linebot.LocationMessage", ID |-> id, Title |-> title,
     Address |-> "addr", Latitude |-> 35, Longitude |-> 139]
StickerMessage(id) ==
    [Kind |-> "*linebot.StickerMessage", ID |-> id, PackageID |-> "1", StickerID |-> "2"]

PickerParams == [Date |-> "2020-01-01", Time |-> "", Datetime |-> ""]
Postback(data, params) == [Data |-> data, Params |-> params]

MessageEvent(src, token, msg) ==
    [Type |-> EventTypeMessage, Source |-> src, ReplyToken |-> token,
     Timestamp |-> 1, Message |-> msg, Postback |-> Nil]
PostbackEv(src, token, pb) ==
    [Type |-> EventTypePostback, Source |-> src, ReplyToken |-> token,
     Timestamp |-> 2, Message |-> Nil, Postback |-> pb]
FollowEvent(src, token) ==
    [Type |-> EventTypeFollow, Source |-> src, ReplyToken |-> token,
     Timestamp |-> 3, Message |-> Nil, Postback |-> Nil]

\* The events a delivery is made of, as the SDK's parser builds them: Source
\* is set, and Message or Postback according to Type.
Events ==
    { MessageEvent(SrcUser, "r1", TextMessage("m1", Hello)),
      MessageEvent(SrcUser, "r1", TextMessage("m2", <<"U+3000">> \o DotHelp \o <<"\n">>)),
      MessageEvent(SrcUser, "r1", TextMessage("m3", DotAbort)),
      MessageEvent(SrcUser, "r1", TextMessage("m4", <<" ">> \o Hello \o <<"\t">>)),
      MessageEvent(SrcUser, "r1", ImageMessage("m5")),
      MessageEvent(SrcUser, "r1", LocationMessage("m6", DotHelp)),
      MessageEvent(SrcUser, "r1", FileMessage("m7")),
      MessageEvent(SrcGroup, "r2", TextMessage("m8", DotHelp)),
      MessageEvent(SrcGroupOther, "r2", TextMessage("m1", Hello)),
      MessageEvent(SrcUnknown, "r3", TextMessage("m9", DotHelp)),
      MessageEvent(SrcUnknown, "r3", FileMessage("m7")),
      PostbackEv(SrcRoom, "r4", Postback(<<" ">> \o DotAbort, PickerParams)),
      PostbackEv(SrcGroup, "r2", Postback(DotHelp, Nil)),
      PostbackEv(SrcUnknown, "r3", Postback(DotHelp, Nil)),
      FollowEvent(SrcUser, "r1") }

RECURSIVE SeqsUpTo(_, _)
SeqsUpTo(S, n) ==
    IF n = 0 THEN {<<>>}
    ELSE LET shorter == SeqsUpTo(S, n - 1)
         IN shorter \cup {Append(q, x) : q \in shorter, x \in S}

Batches == SeqsUpTo(Events, MaxBatch)

(***************************************************************************)
(* SourceToSenderKey: the sender key of an event source and the error.     *)
(***************************************************************************)
\* Mutant: a group's key is built from the user identifier.
SourceToSenderKeyByUser(s) ==
    CASE s.Type = EventSourceTypeUser -> [key |-> "user|" \o s.UserID, err |-> NoErr]
      [] s.Type = EventSourceTypeRoom -> [key |-> "room|" \o s.RoomID, err |-> NoErr]
      [] s.Type = EventSourceTypeGroup -> [key |-> "group|" \o s.UserID, err |-> NoErr]
      [] OTHER -> [key |-> "", err |-> ErrUnrecognizedEventSource]

SourceToSenderKey(s) ==
    CASE s.Type = EventSourceTypeUser -> [key |-> "user|" \o s.UserID, err |-> NoErr]
      [] s.Type = EventSourceTypeRoom -> [key |-> "room|" \o s.RoomID, err |-> NoErr]
      [] s.Type = EventSourceTypeGroup -> [key |-> "group|" \o s.GroupID, err |-> NoErr]
      [] OTHER -> [key |-> "", err |-> ErrUnrecognizedEventSource]

(***************************************************************************)
(* The input types of the adapter and their accessors.                     *)
(***************************************************************************)
\* sarah.NewHelpInput / sarah.NewAbortInput: a wrapper that keeps the input.
NewHelpInput(input) == [Kind |-> "*sarah.HelpInput", OriginalInput |-> input]
NewAbortInput(input) == [Kind |-> "*sarah.AbortInput", OriginalInput |-> input]

IsWrapped(input) == input.Kind \in {"*sarah.HelpInput", "*sarah.AbortInput"}

Unwrap(input) == IF IsWrapped(input) THEN input.OriginalInput ELSE input

SenderKey(input) == Unwrap(input).senderKey

Message(input) ==
    LET in == Unwrap(input)
    IN CASE in.Kind = "*line.TextInput" -> in.text
         [] in.Kind = "*line.FileInput" -> <<>>
         [] in.Kind = "*line.LocationInput" -> in.Location.Title
         [] in.Kind = "*line.StickerInput" -> <<>>
         [] in.Kind = "*line.PostbackEvent" -> in.data

ReplyTo(input) == Unwrap(input).replyToken

SentAt(input) == Unwrap(input).timestamp

(***************************************************************************)
(* EventToUserInput: the input an event converts to, or the error.         *)
(***************************************************************************)
\* The help / abort check applied to a text or postback input.
\* Mutant: the text is compared without trimming.
WrapCommandUntrimmed(cfg, input, text) ==
    IF cfg.HelpCommand # <<>> /\ text = cfg.HelpCommand
      THEN NewHelpInput(input)
    ELSE IF cfg.AbortCommand # <<>> /\ text = cfg.AbortCommand
      THEN NewAbortInput(input)
    ELSE input

\* Mutant: an empty command is compared like any other.
WrapCommandNoEmptyCheck(cfg, input, text) ==
    LET trimmed == TrimSpace(text)
    IN IF trimmed = cfg.HelpCommand THEN NewHelpInput(input)
       ELSE IF trimmed = cfg.AbortCommand THEN NewAbortInput(input)
       ELSE input

WrapCommand(cfg, input, text) ==
    LET trimmed == TrimSpace(text)
    IN IF cfg.HelpCommand # <<>> /\ trimmed = cfg.HelpCommand
         THEN NewHelpInput(input)
       ELSE IF cfg.AbortCommand # <<>> /\ trimmed = cfg.AbortCommand
         THEN NewAbortInput(input)
       ELSE input

\* Mutant: the trimmed text is stored.
TextInputTrimmed(event, senderKey) ==
    [Kind |-> "*line.TextInput", sourceType |-> event.Source.Type,
     ID |-> event.Message.ID, senderKey |-> senderKey,
     text |-> TrimSpace(event.Message.Text), replyToken |-> event.ReplyToken,
     timestamp |-> event.Timestamp]

TextInput(event, senderKey) ==
    [Kind |-> "*line.TextInput", sourceType |-> event.Source.Type,
     ID |-> event.Message.ID, senderKey |-> senderKey,
     text |-> event.Message.Text, replyToken |-> event.ReplyToken,
     timestamp |-> event.Timestamp]

\* Mutant: every file input is tagged as an image.
FileInputUntagged(event, senderKey, type) ==
    [Kind |-> "*line.FileInput", sourceType |-> event.Source.Type, Type |-> MessageTypeImage,
     ID |-> event.Message.ID, senderKey |-> senderKey,
     replyToken |-> event.ReplyToken, timestamp |-> event.Timestamp]

FileInput(event, senderKey, type) ==
    [Kind |-> "*line.FileInput", sourceType |-> event.Source.Type, Type |-> type,
     ID |-> event.Message.ID, senderKey |-> senderKey,
     replyToken |-> event.ReplyToken, timestamp |-> event.Timestamp]

\* fmt's %T: the dynamic type of a value, "<nil>" for a nil interface.
TypeName(v) == IF v = Nil THEN "<nil>" ELSE v.Kind

MessageToInput(cfg, event, senderKey) ==
    LET message == event.Message
    IN CASE message.Kind = "*linebot.TextMessage" ->
              [input |-> WrapCommand(cfg, TextInput(event, senderKey), message.Text),
               err |-> NoErr]
         [] message.Kind = "*linebot.ImageMessage" ->
              [input |-> FileInput(event, senderKey, MessageTypeImage), err |-> NoErr]
         [] message.Kind = "*linebot.VideoMessage" ->
              [input |-> FileInput(event, senderKey, MessageTypeVideo), err |-> NoErr]
         [] message.Kind = "*linebot.AudioMessage" ->
              [input |-> FileInput(event, senderKey, MessageTypeAudio), err |-> NoErr]
         [] message.Kind = "*linebot.LocationMessage" ->
              [input |-> [Kind |-> "*line.LocationInput", sourceType |-> event.Source.Type,
                          ID |-> message.ID,
                          Location |-> [Title |-> message.Title, Address |-> message.Address,
                                        Latitude |-> message.Latitude,
                                        Longitude |-> message.Longitude],
                          senderKey |-> senderKey, replyToken |-> event.ReplyToken,
                          timestamp |-> event.Timestamp],
               err |-> NoErr]
         [] message.Kind = "*linebot.StickerMessage" ->
              [input |-> [Kind |-> "*line.StickerInput", sourceType |-> event.Source.Type,
                          ID |-> message.ID, PackageID |-> message.PackageID,
                          StickerID |-> message.StickerID, senderKey |-> senderKey,
                          replyToken |-> event.ReplyToken, timestamp |-> event.Timestamp],
               err |-> NoErr]
         [] OTHER ->
              [input |-> Nil, err |-> "unknown message type: " \o TypeName(message)]

\* Mutant: the picker parameters are left out.
PostbackToInputNoParams(cfg, event, senderKey) ==
    LET postback == event.Postback
        input == [Kind |-> "*line.PostbackEvent", Params |-> Nil,
                  sourceType |-> event.Source.Type, senderKey |-> senderKey,
                  data |-> postback.Data, replyToken |-> event.ReplyToken,
                  timestamp |-> event.Timestamp]
    IN [input |-> WrapCommand(cfg, input, Message(input)), err |-> NoErr]

PostbackToInput(cfg, event, senderKey) ==
    LET postback == event.Postback
        params == IF postback.Params # Nil
                    THEN [Date |-> postback.Params.Date, Time |-> postback.Params.Time,
                          Datetime |-> postback.Params.Datetime]
                    ELSE Nil
        input == [Kind |-> "*line.PostbackEvent", Params |-> params,
                  sourceType |-> event.Source.Type, senderKey |-> senderKey,
                  data |-> postback.Data, replyToken |-> event.ReplyToken,
                  timestamp |-> event.Timestamp]
    IN [input |-> WrapCommand(cfg, input, Message(input)), err |-> NoErr]

\* Mutant: the message subtype is looked at before the source.
EventToUserInputSubtypeFirst(cfg, event) ==
    LET sk == SourceToSenderKey(event.Source)
    IN IF event.Type = EventTypeMessage /\ MessageToInput(cfg, event, sk.key).err # NoErr
         THEN MessageToInput(cfg, event, sk.key)
       ELSE IF sk.err # NoErr THEN [input |-> Nil, err |-> sk.err]
       ELSE IF event.Type = EventTypeMessage THEN MessageToInput(cfg, event, sk.key)
       ELSE IF event.Type = EventTypePostback THEN PostbackToInput(cfg, event, sk.key)
       ELSE [input |-> Nil, err |-> "*linebot.Event can not be treated as user input"]

EventToUserInput(cfg, event) ==
    LET sk == SourceToSenderKey(event.Source)
    IN IF sk.err # NoErr THEN [input |-> Nil, err |-> sk.err]
       ELSE IF event.Type = EventTypeMessage THEN MessageToInput(cfg, event, sk.key)
       ELSE IF event.Type = EventTypePostback THEN PostbackToInput(cfg, event, sk.key)
       ELSE [input |-> Nil, err |-> "*linebot.Event can not be treated as user input"]

(***************************************************************************)
(* The Adapter value: the client that sends replies and the function the   *)
(* listener calls with each batch of events.                               *)
(***************************************************************************)
Adapter(client, eventHandler) == [client |-> client, eventHandler |-> eventHandler]

\* A *linebot.Client, told apart by where it was made.
Client(origin) == [Kind |-> "*linebot.Client", origin |-> origin]

\* A linebot.ClientOption, by the error it returns when it is applied.
ClientOption(err) == [opt |-> "linebot.ClientOption", err |-> err]

\* linebot.New: the credentials must not be empty, and the first client
\* option that returns an error ends the construction.
LinebotNew(channelSecret, channelToken, clientOptions) ==
    IF channelSecret = "" THEN [client |-> Nil, err |-> "missing channel secret"]
    ELSE IF channelToken = "" THEN [client |-> Nil, err |-> "missing channel access token"]
    ELSE LET failing == {k \in 1..Len(clientOptions) : clientOptions[k].err # NoErr}
         IN IF failing = {}
              THEN [client |-> Client("linebot.New"), err |-> NoErr]
              ELSE [client |-> Nil,
                    err |-> clientOptions[CHOOSE k \in failing :
                                              \A j \in failing : k <= j].err]

\* The options: WithClient, WithEventHandler, and an AdapterOption of the
\* caller's that returns an error.
WithClient(client) == [opt |-> "WithClient", client |-> client]
WithEventHandler(handler) == [opt |-> "WithEventHandler", handler |-> handler]
FailingOption(err) == [opt |-> "AdapterOption", err |-> err]

\* opt(adapter)
ApplyOption(opt, a) ==
    CASE opt.opt = "WithClient" ->
           [adapter |-> [a EXCEPT !.client = opt.client], err |-> NoErr]
      [] opt.opt = "WithEventHandler" ->
           [adapter |-> [a EXCEPT !.eventHandler = opt.handler], err |-> NoErr]
      [] OTHER -> [adapter |-> a, err |-> opt.err]

\* The range loop over the options: the first error ends it.
RECURSIVE ApplyOptions(_, _)
ApplyOptions(options, a) ==
    IF options = <<>> THEN [adapter |-> a, err |-> NoErr]
    ELSE LET r == ApplyOption(Head(options), a)
         IN IF r.err # NoErr THEN r ELSE ApplyOptions(Tail(options), r.adapter)

\* What a constructor call comes to: the values it returns or the panic it
\* raises; built tells whether linebot.New was called.
NoPanic == ""
Constructed(a, built) == [adapter |-> a, err |-> NoErr, panic |-> NoPanic, built |-> built]
NotConstructed(err, built) == [adapter |-> Nil, err |-> err, panic |-> NoPanic, built |-> built]
Panicked(message) == [adapter |-> Nil, err |-> NoErr, panic |-> message, built |-> TRUE]

\* The body shared by NewAdapter and its version before, which differ in
\* the format of the error only.
Construct(cfg, options, format) ==
    LET applied == ApplyOptions(options, Adapter(Nil, "defaultEventHandler"))
    IN IF applied.err # NoErr THEN NotConstructed(applied.err, FALSE)
       ELSE IF applied.adapter.client = Nil
         THEN LET made == LinebotNew(cfg.ChannelSecret, cfg.ChannelToken, cfg.ClientOptions)
              IN IF made.err # NoErr
                   THEN NotConstructed(format[1] \o made.err \o format[2], TRUE)
                   ELSE Constructed([applied.adapter EXCEPT !.client = made.client], TRUE)
       ELSE Constructed(applied.adapter, FALSE)

\* Mutant: the client is built from the configuration before the options
\* are applied.
NewAdapterClientFirst(cfg, options) ==
    LET made == LinebotNew(cfg.ChannelSecret, cfg.ChannelToken, cfg.ClientOptions)
    IN IF made.err # NoErr
         THEN NotConstructed("error on linebot.Client construction: " \o made.err, TRUE)
         ELSE LET applied == ApplyOptions(options, Adapter(made.client, "defaultEventHandler"))
              IN IF applied.err # NoErr THEN NotConstructed(applied.err, TRUE)
                 ELSE Constructed(applied.adapter, TRUE)

\* NewAdapter, current version.
NewAdapter(cfg, options) ==
    Construct(cfg, options, <<"error on linebot.Client construction: ", "">>)

\* NewAdapter, the version before.
NewAdapterV1(cfg, options) ==
    Construct(cfg, options, <<"error on linebot.Client construction: ", ".">>)

\* NewAdapter, the first version: no options, and a panic.
NewAdapterV0(cfg) ==
    LET made == LinebotNew(cfg.ChannelSecret, cfg.ChannelToken, cfg.ClientOptions)
    IN IF made.err # NoErr
         THEN Panicked("Error on linebot.Client construction: " \o made.err)
         ELSE Constructed(Adapter(made.client, "defaultEventHandler"), TRUE)

\* NewAdapterWithHandler, of the first version only.
NewAdapterWithHandler(cfg, handler) ==
    LET made == NewAdapterV0(cfg)
    IN IF made.panic # NoPanic THEN made
       ELSE Constructed([made.adapter EXCEPT !.eventHandler = handler], TRUE)

\* The part of a configuration the client is built from, and the options
\* given to NewAdapter.
Credentials ==
    [ChannelSecret : {"", "secret"}, ChannelToken : {"", "token"},
     ClientOptions : {<<>>, <<ClientOption(NoErr)>>,
                      <<ClientOption(NoErr), ClientOption("parse \"::\": missing protocol scheme")>>}]
ValidCredentials ==
    [ChannelSecret |-> "secret", ChannelToken |-> "token", ClientOptions |-> <<>>]
Options ==
    { WithClient(Client("WithClient")), WithClient(Nil), WithEventHandler("customHandler"),
      FailingOption("option failed"), FailingOption("other option failed") }

\* What NewAdapter returns when it is given a valid configuration only, and
\* when it is given an event handler as well.
DefaultAdapter == NewAdapter(ValidCredentials, <<>>).adapter
CustomAdapter == NewAdapter(ValidCredentials, <<WithEventHandler("customHandler")>>).adapter

(***************************************************************************)
(* Adapter.Run and Adapter.listen.  listen returns an error when the       *)
(* webhook handler cannot be built or the server cannot bind; otherwise    *)
(* the server is up and calls the event handler for each parsed delivery.  *)
(***************************************************************************)
ListenErrors == {"httphandler.New: missing channel secret", "listen tcp: address already in use"}

RunFails ==
    /\ pc = "init"
    /\ \E err \in ListenErrors :
          /\ notified' = Append(notified, err)
          /\ pc' = "stopped"
    /\ UNCHANGED <<runCtx, adapter, building, served, config, events, idx, handled, enqueued, enqueueErrs, logs, sends>>

RunListens ==
    /\ pc = "init"
    /\ pc' = "listening"
    /\ UNCHANGED <<runCtx, adapter, building, served, config, events, idx, handled, enqueued, enqueueErrs, logs, notified, sends>>

(***************************************************************************)
(* defaultEventHandler.  HandleEvents is the call made by the callback     *)
(* registered in listen; HandleEvent is one iteration of the range loop;   *)
(* HandlerReturns is the end of the loop.                                  *)
(***************************************************************************)
IsUserInputEvent(event) ==
    event.Type = EventTypeMessage \/ event.Type = EventTypePostback

HandleEvents ==
    /\ pc = "listening"
    /\ adapter.eventHandler = "defaultEventHandler"
    /\ \E batch \in Batches : events' = batch
    /\ idx' = 1
    /\ handled' = <<>>
    /\ enqueued' = <<>>
    /\ enqueueErrs' = 0
    /\ logs' = <<>>
    /\ pc' = "handling"
    /\ UNCHANGED <<runCtx, adapter, building, served, config, notified, sends>>

\* The callback registered in listen, when the adapter was built with
\* WithEventHandler: the function given there is called with the batch.
HandleEventsCustom ==
    /\ pc = "listening"
    /\ adapter.eventHandler # "defaultEventHandler"
    /\ \E batch \in Batches :
          /\ events' = batch
          /\ served' = <<[handler |-> adapter.eventHandler, config |-> config,
                          events |-> batch]>>
    /\ idx' = 1
    /\ handled' = <<>>
    /\ enqueued' = <<>>
    /\ enqueueErrs' = 0
    /\ logs' = <<>>
    /\ pc' = "handlingCustom"
    /\ UNCHANGED <<runCtx, adapter, building, config, notified, sends>>

\* The function given to WithEventHandler returns to the HTTP server.
CustomHandlerReturns ==
    /\ pc = "handlingCustom"
    /\ pc' = "listening"
    /\ events' = <<>>
    /\ served' = <<>>
    /\ UNCHANGED <<runCtx, adapter, building, config, idx, handled, enqueued, enqueueErrs, logs,
                   notified, sends>>

\* Mutant: an event of another type is reported in the log.
SkipEventLogged ==
    /\ pc = "handling"
    /\ idx <= Len(events)
    /\ ~IsUserInputEvent(events[idx])
    /\ handled' = Append(handled, [did |-> "skip", input |-> Nil, err |-> NoErr])
    /\ logs' = Append(logs, "Error on event handling: unexpected event type.")
    /\ idx' = idx + 1
    /\ UNCHANGED <<runCtx, adapter, building, served, config, pc, events, enqueued, enqueueErrs, notified, sends>>

\* The event's type is neither message nor postback: nothing is done.
SkipEvent ==
    /\ pc = "handling"
    /\ idx <= Len(events)
    /\ ~IsUserInputEvent(events[idx])
    /\ handled' = Append(handled, [did |-> "skip", input |-> Nil, err |-> NoErr])
    /\ idx' = idx + 1
    /\ UNCHANGED <<runCtx, adapter, building, served, config, pc, events, enqueued, enqueueErrs, logs, notified, sends>>

\* Mutant: an event that cannot be converted ends the loop.
LogEventErrorBreaks ==
    /\ pc = "handling"
    /\ idx <= Len(events)
    /\ IsUserInputEvent(events[idx])
    /\ LET r == EventToUserInput(config, events[idx])
       IN /\ r.err # NoErr
          /\ logs' = Append(logs, "Error on event handling: " \o r.err \o ".")
          /\ handled' = Append(handled, [did |-> "log", input |-> r.input, err |-> r.err])
    /\ idx' = Len(events) + 1
    /\ UNCHANGED <<runCtx, adapter, building, served, config, pc, events, enqueued, enqueueErrs, notified, sends>>

\* EventToUserInput returned an error: it is logged and the loop continues.
LogEventError ==
    /\ pc = "handling"
    /\ idx <= Len(events)
    /\ IsUserInputEvent(events[idx])
    /\ LET r == EventToUserInput(config, events[idx])
       IN /\ r.err # NoErr
          /\ logs' = Append(logs, "Error on event handling: " \o r.err \o ".")
          /\ handled' = Append(handled, [did |-> "log", input |-> r.input, err |-> r.err])
    /\ idx' = idx + 1
    /\ UNCHANGED <<runCtx, adapter, building, served, config, pc, events, enqueued, enqueueErrs, notified, sends>>

\* Mutant: the inputs reach enqueueInput in the reverse order.
EnqueueEventReversed ==
    /\ pc = "handling"
    /\ idx <= Len(events)
    /\ IsUserInputEvent(events[idx])
    /\ LET r == EventToUserInput(config, events[idx])
       IN /\ r.err = NoErr
          /\ enqueued' = <<r.input>> \o enqueued
          /\ handled' = Append(handled, [did |-> "enqueue", input |-> r.input, err |-> r.err])
    /\ \E failed \in BOOLEAN :
          enqueueErrs' = IF failed THEN enqueueErrs + 1 ELSE enqueueErrs
    /\ idx' = idx + 1
    /\ UNCHANGED <<runCtx, adapter, building, served, config, pc, events, logs, notified, sends>>

\* Mutant: an error of enqueueInput ends the loop.
EnqueueEventStopsOnError ==
    /\ pc = "handling"
    /\ idx <= Len(events)
    /\ IsUserInputEvent(events[idx])
    /\ LET r == EventToUserInput(config, events[idx])
       IN /\ r.err = NoErr
          /\ enqueued' = Append(enqueued, r.input)
          /\ handled' = Append(handled, [did |-> "enqueue", input |-> r.input, err |-> r.err])
    /\ \E failed \in BOOLEAN :
          /\ enqueueErrs' = IF failed THEN enqueueErrs + 1 ELSE enqueueErrs
          /\ idx' = IF failed THEN Len(events) + 1 ELSE idx + 1
    /\ UNCHANGED <<runCtx, adapter, building, served, config, pc, events, logs, notified, sends>>

\* The input is passed to enqueueInput; what enqueueInput returns is dropped.
EnqueueEvent ==
    /\ pc = "handling"
    /\ idx <= Len(events)
    /\ IsUserInputEvent(events[idx])
    /\ LET r == EventToUserInput(config, events[idx])
       IN /\ r.err = NoErr
          /\ enqueued' = Append(enqueued, r.input)
          /\ handled' = Append(handled, [did |-> "enqueue", input |-> r.input, err |-> r.err])
    /\ \E failed \in BOOLEAN :
          enqueueErrs' = IF failed THEN enqueueErrs + 1 ELSE enqueueErrs
    /\ idx' = idx + 1
    /\ UNCHANGED <<runCtx, adapter, building, served, config, pc, events, logs, notified, sends>>

\* The handler returns to the HTTP server, which waits for the next delivery;
\* the variables of the delivery are cleared.
HandlerReturns ==
    /\ pc = "handling"
    /\ idx > Len(events)
    /\ pc' = "listening"
    /\ events' = <<>>
    /\ idx' = 1
    /\ handled' = <<>>
    /\ enqueued' = <<>>
    /\ enqueueErrs' = 0
    /\ logs' = <<>>
    /\ UNCHANGED <<runCtx, adapter, building, served, config, notified, sends>>

(***************************************************************************)
(* The reply side.  Three versions of SendMessage are in the sources: the  *)
(* current one (adapter.go:123, "v2"), the one before it (adapter.go:767,  *)
(* "v1") and the first one ("v0"); each has its own response constructors. *)
(***************************************************************************)
\* linebot.NewTextMessage
NewTextMessage(content) == TextMessage("", content)

\* The message types of the SDK that implement linebot.SendingMessage, and
\* those that implement linebot.Message.
SendingMessageTypes ==
    {"*linebot.TextMessage", "*linebot.ImageMessage", "*linebot.VideoMessage",
     "*linebot.AudioMessage", "*linebot.LocationMessage", "*linebot.StickerMessage"}
MessageTypes == SendingMessageTypes \cup {"*linebot.FileMessage"}

GoString(v) == [Kind |-> "string", Value |-> v]
GoInt(v) == [Kind |-> "int", Value |-> v]
MessageSlice(msgs) == [Kind |-> "[]linebot.Message", Value |-> msgs]
SendingMessageSlice(msgs) == [Kind |-> "[]linebot.SendingMessage", Value |-> msgs]
CommandHelps(helps) == [Kind |-> "*sarah.CommandHelps", Value |-> helps]

\* sarah.NewUserContext
NewUserContext(next) == [Kind |-> "*sarah.UserContext", Next |-> next]

\* sarah.NewOutputMessage: what the bot hands to SendMessage.
NewOutputMessage(destination, content) ==
    [Destination |-> destination, Content |-> content]

\* Mutant: the content is the string itself, as in the first version.
NewStringResponseAsString(responseContent) ==
    [Content |-> GoString(responseContent), UserContext |-> Nil]

\* Response constructors of the current version.
NewStringResponse(responseContent) ==
    [Content |-> NewTextMessage(responseContent), UserContext |-> Nil]

NewCustomizedResponseWithNext(responseMessage, next) ==
    [Content |-> responseMessage, UserContext |-> NewUserContext(next)]

NewStringResponseWithNext(responseContent, next) ==
    NewCustomizedResponseWithNext(NewTextMessage(responseContent), next)

NewCustomizedResponse(responseMessage) ==
    [Content |-> responseMessage, UserContext |-> Nil]

NewMultipleCustomizedResponses(responseMessages) ==
    [Content |-> MessageSlice(responseMessages), UserContext |-> Nil]

NewMultipleCustomizedResponsesWithNext(responseMessages, next) ==
    [Content |-> MessageSlice(responseMessages), UserContext |-> NewUserContext(next)]

\* Response constructors of the earlier versions, where they differ.
NewStringResponseV1(responseContent) ==
    NewCustomizedResponseWithNext(NewTextMessage(responseContent), Nil)

NewStringResponseV0(responseContent) ==
    [Content |-> GoString(responseContent), Next |-> Nil]

\* Mutant: a failed reply is sent a second time.
replyRetrying(replyToken, message, err) ==
    LET call == [replyToken |-> replyToken, messages |-> message]
    IN [calls |-> IF err # NoErr THEN <<call, call>> ELSE <<call>>,
        logs |-> IF err # NoErr THEN <<"error on message reply: " \o err>> ELSE <<>>]

\* Adapter.reply: one call of the reply endpoint; a failure is logged.
reply(replyToken, message, err) ==
    [calls |-> <<[replyToken |-> replyToken, messages |-> message]>>,
     logs |-> IF err # NoErr THEN <<"error on message reply: " \o err>> ELSE <<>>]

NoReply(log) == [calls |-> <<>>, logs |-> <<log>>]

\* Mutant: the messages are in the reverse order of the listing.
HelpMessagesReversed(helps, field) ==
    [i \in 1..Len(helps) |-> NewTextMessage(helps[Len(helps) + 1 - i][field])]

\* The messages made of a help listing, one per command, in its order.
HelpMessages(helps, field) ==
    [i \in 1..Len(helps) |-> NewTextMessage(helps[i][field])]

\* Mutant: the destination is used as the reply token whatever its type.
SendMessageNoDestCheck(output, err) ==
    LET replyToken == output.Destination.Value
        content == output.Content
    IN CASE content.Kind = "[]linebot.SendingMessage" ->
              reply(replyToken, content.Value, err)
         [] content.Kind \in SendingMessageTypes ->
              reply(replyToken, <<content>>, err)
         [] content.Kind = "*sarah.CommandHelps" ->
              reply(replyToken, HelpMessages(content.Value, "Instruction"), err)
         [] OTHER -> NoReply("unexpected output")

\* Adapter.SendMessage, current version.  err is what call.Do() returns.
SendMessage(output, err) ==
    IF output.Destination.Kind # "string"
      THEN NoReply("destination is not string.")
    ELSE LET replyToken == output.Destination.Value
             content == output.Content
         IN CASE content.Kind = "[]linebot.SendingMessage" ->
                   reply(replyToken, content.Value, err)
              [] content.Kind \in SendingMessageTypes ->
                   reply(replyToken, <<content>>, err)
              [] content.Kind = "*sarah.CommandHelps" ->
                   reply(replyToken, HelpMessages(content.Value, "Instruction"), err)
              [] OTHER -> NoReply("unexpected output")

\* Adapter.SendMessage, the version before.
SendMessageV1(output, err) ==
    IF output.Destination.Kind # "string"
      THEN NoReply("destination is not string.")
    ELSE LET replyToken == output.Destination.Value
             content == output.Content
         IN CASE content.Kind = "[]linebot.Message" ->
                   reply(replyToken, content.Value, err)
              [] content.Kind \in MessageTypes ->
                   reply(replyToken, <<content>>, err)
              [] content.Kind = "*sarah.CommandHelps" ->
                   reply(replyToken, HelpMessages(content.Value, "InputExample"), err)
              [] OTHER -> NoReply("unexpected output")

\* Adapter.SendMessage, the first version.
SendMessageV0(output, err) ==
    IF output.Destination.Kind # "string"
      THEN NoReply("destination is not string.")
    ELSE LET replyToken == output.Destination.Value
             content == output.Content
         IN CASE content.Kind = "string" ->
                   reply(replyToken, <<NewTextMessage(content.Value)>>, err)
              [] content.Kind \in MessageTypes ->
                   reply(replyToken, <<content>>, err)
              [] OTHER -> NoReply("unexpected output")

(***************************************************************************)
(* What the bot asks the adapter to send: a response built by one of the   *)
(* constructors from an argument, or a content made elsewhere ("raw").     *)
(***************************************************************************)
ResponseStrings == {<<>>, Hello, <<" ">> \o Hello}
ResponseLists ==
    { <<NewTextMessage(Hello)>>,
      <<NewTextMessage(Hello), ImageMessage(""), NewTextMessage(DotHelp)>> }
HelpListing ==
    << [Identifier |-> "echo", Instruction |-> <<".", "e">>, InputExample |-> <<".", "e">>],
       [Identifier |-> "hello", Instruction |-> Hello, InputExample |-> Hello] >>
RawContents ==
    { CommandHelps(HelpListing),
      CommandHelps(<<>>),
      SendingMessageSlice(<<NewTextMessage(Hello), NewTextMessage(DotHelp)>>),
      GoInt(7) }

Versions == {"v2", "v1", "v0"}

Requests ==
    [ctor : {"NewStringResponse", "NewStringResponseWithNext"}, arg : ResponseStrings]
    \cup [ctor : {"NewCustomizedResponse"}, arg : {ImageMessage("")}]
    \cup [ctor : {"NewMultipleCustomizedResponses", "NewMultipleCustomizedResponsesWithNext"},
          arg : ResponseLists]
    \cup [ctor : {"raw"}, arg : RawContents]

\* The constructors a version of the package has.
HasCtor(version, ctor) ==
    version = "v0" =>
        ctor \in {"NewStringResponse", "NewStringResponseWithNext",
                  "NewCustomizedResponse", "raw"}

Response(version, req) ==
    CASE req.ctor = "NewStringResponse" ->
           IF version = "v2" THEN NewStringResponse(req.arg)
           ELSE IF version = "v1" THEN NewStringResponseV1(req.arg)
           ELSE NewStringResponseV0(req.arg)
      [] req.ctor = "NewStringResponseWithNext" ->
           IF version = "v0" THEN [Content |-> GoString(req.arg), Next |-> "next"]
           ELSE NewStringResponseWithNext(req.arg, "next")
      [] req.ctor = "NewCustomizedResponse" ->
           IF version = "v2" THEN NewCustomizedResponse(req.arg)
           ELSE IF version = "v1" THEN NewCustomizedResponseWithNext(req.arg, Nil)
           ELSE [Content |-> req.arg, Next |-> Nil]
      [] req.ctor = "NewMultipleCustomizedResponses" ->
           NewMultipleCustomizedResponses(req.arg)
      [] req.ctor = "NewMultipleCustomizedResponsesWithNext" ->
           NewMultipleCustomizedResponsesWithNext(req.arg, "next")
      [] req.ctor = "raw" -> [Content |-> req.arg, UserContext |-> Nil]

Destinations == {GoString("r1"), GoInt(1)}
ReplyResults == {NoErr, "linebot: APIError 400 Invalid reply token"}

Dispatch(version, output, err) ==
    IF version = "v2" THEN SendMessage(output, err)
    ELSE IF version = "v1" THEN SendMessageV1(output, err)
    ELSE SendMessageV0(output, err)

\* A SendMessage invocation up to the point where it returns without a
\* reply call, or waits in call.Do() for the answer of the reply endpoint.
\* Other invocations go on during the wait.
SendMessageCall ==
    /\ Len(sends) < MaxSends
    /\ \E version \in Versions, req \in Requests, dest \in Destinations :
          /\ HasCtor(version, req.ctor)
          /\ dest.Kind # "string" => req.ctor \in {"NewStringResponse", "raw"}
          /\ LET output == NewOutputMessage(dest, Response(version, req).Content)
                 begun == Dispatch(version, output, NoErr)
             IN sends' = Append(sends,
                    [version |-> version, ctor |-> req.ctor, arg |-> req.arg,
                     output |-> output, err |-> NoErr,
                     calls |-> begun.calls,
                     logs |-> IF begun.calls = <<>> THEN begun.logs ELSE <<>>,
                     state |-> IF begun.calls = <<>> THEN "returned" ELSE "in flight"])
    /\ UNCHANGED <<runCtx, adapter, building, served, config, pc, events, idx, handled, enqueued, enqueueErrs, logs, notified>>

\* call.Do() of an invocation that waits returns, with an error or without;
\* reply logs the error and SendMessage returns.
ReplyReturns ==
    /\ \E i \in 1..Len(sends), err \in ReplyResults :
          /\ sends[i].state = "in flight"
          /\ LET done == Dispatch(sends[i].version, sends[i].output, err)
             IN sends' = [sends EXCEPT ![i] =
                    [@ EXCEPT !.err = err, !.calls = done.calls, !.logs = done.logs,
                              !.state = "returned"]]
    /\ UNCHANGED <<runCtx, adapter, building, served, config, pc, events, idx, handled, enqueued, enqueueErrs, logs, notified>>

(***************************************************************************)
(* The webhook side of the adapter.                                        *)
(***************************************************************************)
Init ==
    /\ config \in Configs
    /\ pc = "init"
    /\ events = <<>>
    /\ idx = 1
    /\ handled = <<>>
    /\ enqueued = <<>>
    /\ enqueueErrs = 0
    /\ logs = <<>>
    /\ notified = <<>>
    /\ sends = <<>>
    /\ adapter \in {DefaultAdapter, CustomAdapter}
    /\ building = Nil
    /\ served = <<>>
    /\ runCtx = "active"

Next ==
    \/ RunFails
    \/ RunListens
    \/ HandleEvents
    \/ HandleEventsCustom
    \/ CustomHandlerReturns
    \/ SkipEvent
    \/ LogEventError
    \/ EnqueueEvent
    \/ HandlerReturns

Spec == Init /\ [][Next]_vars

(***************************************************************************)
(* The reply side of the adapter: SendMessage invocations by the bot.      *)
(***************************************************************************)
InitSend ==
    /\ config = NewConfig
    /\ pc = "listening"
    /\ events = <<>>
    /\ idx = 1
    /\ handled = <<>>
    /\ enqueued = <<>>
    /\ enqueueErrs = 0
    /\ logs = <<>>
    /\ notified = <<>>
    /\ sends = <<>>
    /\ adapter = DefaultAdapter
    /\ building = Nil
    /\ served = <<>>
    /\ runCtx = "active"

NextSend ==
    \/ SendMessageCall
    \/ ReplyReturns

SpecSend == InitSend /\ [][NextSend]_vars

(***************************************************************************)
(* The context of a reply.  A context is done `after` seconds from the     *)
(* start of the dispatch when `cancels` holds (0: it is done already) and  *)
(* never otherwise; err is what its Err() gives once it is done.           *)
(***************************************************************************)
ReplyTimeout == 5

Context(cancels, after, err) == [cancels |-> cancels, after |-> after, err |-> err]

Background == Context(FALSE, 0, NoErr)

\* context.WithTimeout: done when the parent is, or after d seconds.
WithTimeout(parent, d) ==
    IF parent.cancels /\ parent.after < d
      THEN parent
      ELSE Context(TRUE, d, "context deadline exceeded")

\* Mutant: the request does not run under the caller's context.
ReqContextBackground(ctx) == WithTimeout(Background, ReplyTimeout)

\* Adapter.reply: reqCtx, the context given to the call.
ReqContext(ctx) == WithTimeout(ctx, ReplyTimeout)

\* call.Do() under reqCtx, when the endpoint would answer after `latency`
\* seconds with apiErr: the request is not sent under a context that is done,
\* is aborted when the context is done before the answer, completes otherwise.
Do(reqCtx, latency, apiErr) ==
    IF reqCtx.cancels /\ reqCtx.after = 0
      THEN [wire |-> "not sent", err |-> reqCtx.err]
    ELSE IF reqCtx.cancels /\ reqCtx.after <= latency
      THEN [wire |-> "aborted", err |-> reqCtx.err]
    ELSE [wire |-> "completed", err |-> apiErr]

\* The contexts SendMessage is called with.
Contexts ==
    { Background,
      Context(TRUE, 0, "context deadline exceeded"),
      Context(TRUE, 0, "context canceled"),
      Context(TRUE, 2, "context canceled"),
      Context(TRUE, 6, "context canceled") }

\* A SendMessage invocation under a context up to call.Do(): the call is
\* built and given the request context, and the invocation waits.
SendUnderContext ==
    /\ Len(sends) < MaxSends
    /\ \E ctx \in Contexts :
          LET output == NewOutputMessage(GoString("r1"), NewStringResponse(Hello).Content)
              begun == SendMessage(output, NoErr)
          IN sends' = Append(sends,
                 [version |-> "v2", ctor |-> "NewStringResponse", arg |-> Hello,
                  output |-> output, err |-> NoErr,
                  calls |-> begun.calls, logs |-> <<>>, state |-> "in flight",
                  ctx |-> ctx, latency |-> 0, wire |-> "in flight"])
    /\ UNCHANGED <<runCtx, adapter, building, served, config, pc, events, idx, handled,
                   enqueued, enqueueErrs, logs, notified>>

\* call.Do() returns: at once when the request context is done already,
\* when the context is done or when the endpoint has answered otherwise;
\* reply logs the error and SendMessage returns.
ContextReplyReturns ==
    /\ \E i \in 1..Len(sends), latency \in 0..MaxLatency, apiErr \in ReplyResults :
          /\ sends[i].state = "in flight"
          /\ LET sent == Do(ReqContext(sends[i].ctx), latency, apiErr)
                 done == SendMessage(sends[i].output, sent.err)
             IN sends' = [sends EXCEPT ![i] =
                    [@ EXCEPT !.err = sent.err, !.calls = done.calls, !.logs = done.logs,
                              !.state = "returned", !.latency = latency,
                              !.wire = sent.wire]]
    /\ UNCHANGED <<runCtx, adapter, building, served, config, pc, events, idx, handled,
                   enqueued, enqueueErrs, logs, notified>>

NextCtx ==
    \/ SendUnderContext
    \/ ContextReplyReturns

SpecCtx == InitSend /\ [][NextCtx]_vars

(***************************************************************************)
(* Construction of the adapter: one NewAdapter call of one version, from   *)
(* its arguments to what it returns.                                       *)
(***************************************************************************)
Constructions ==
    [version : {"v2", "v1"}, call : {"NewAdapter"}, config : Credentials,
     options : SeqsUpTo(Options, MaxOptions), result : {Nil}]
    \cup [version : {"v0"}, call : {"NewAdapter", "NewAdapterWithHandler"},
          config : Credentials, options : {<<>>}, result : {Nil}]

InitNew ==
    /\ config = NewConfig
    /\ pc = "new"
    /\ events = <<>>
    /\ idx = 1
    /\ handled = <<>>
    /\ enqueued = <<>>
    /\ enqueueErrs = 0
    /\ logs = <<>>
    /\ notified = <<>>
    /\ sends = <<>>
    /\ adapter = Nil
    /\ building \in Constructions
    /\ served = <<>>
    /\ runCtx = "active"

\* NewAdapter of the versions that take options.
NewAdapterCall ==
    /\ pc = "new"
    /\ building.version # "v0"
    /\ LET result == IF building.version = "v2"
                       THEN NewAdapter(building.config, building.options)
                       ELSE NewAdapterV1(building.config, building.options)
       IN /\ building' = [building EXCEPT !.result = result]
          /\ adapter' = result.adapter
          /\ pc' = IF result.err = NoErr THEN "init" ELSE "failed"
    /\ UNCHANGED <<runCtx, served, config, events, idx, handled, enqueued, enqueueErrs, logs,
                   notified, sends>>

\* NewAdapterWithHandler of the first version.
NewAdapterWithHandlerCall ==
    /\ pc = "new"
    /\ building.version = "v0"
    /\ building.call = "NewAdapterWithHandler"
    /\ LET result == NewAdapterWithHandler(building.config, "customHandler")
       IN /\ building' = [building EXCEPT !.result = result]
          /\ adapter' = result.adapter
          /\ pc' = IF result.panic = NoPanic THEN "init" ELSE "panicked"
    /\ UNCHANGED <<runCtx, served, config, events, idx, handled, enqueued, enqueueErrs, logs,
                   notified, sends>>

\* NewAdapter of the first version.
NewAdapterV0Call ==
    /\ pc = "new"
    /\ building.version = "v0"
    /\ building.call = "NewAdapter"
    /\ LET result == NewAdapterV0(building.config)
       IN /\ building' = [building EXCEPT !.result = result]
          /\ adapter' = result.adapter
          /\ pc' = IF result.panic = NoPanic THEN "init" ELSE "panicked"
    /\ UNCHANGED <<runCtx, served, config, events, idx, handled, enqueued, enqueueErrs, logs,
                   notified, sends>>

NextNew ==
    \/ NewAdapterCall
    \/ NewAdapterV0Call
    \/ NewAdapterWithHandlerCall

SpecNew == InitNew /\ [][NextNew]_vars

(***************************************************************************)
(* SourceTyper: the input types that have a SourceType method, and the     *)
(* three helpers that assert an input to it.  *sarah.HelpInput and         *)
(* *sarah.AbortInput keep the input they wrap in a field and have the      *)
(* methods of sarah.Input only.                                            *)
(***************************************************************************)
SourceTypers ==
    {"*line.TextInput", "*line.FileInput", "*line.StickerInput", "*line.LocationInput",
     "*line.PostbackEvent"}

\* input.(SourceTyper): ok
ImplementsSourceTyper(input) == input.Kind \in SourceTypers

SourceType(input) == input.sourceType

IsSourceUser(input) ==
    IF ~ImplementsSourceTyper(input) THEN FALSE
    ELSE SourceType(input) = EventSourceTypeUser

IsSourceRoom(input) ==
    IF ~ImplementsSourceTyper(input) THEN FALSE
    ELSE SourceType(input) = EventSourceTypeRoom

IsSourceGroup(input) ==
    IF ~ImplementsSourceTyper(input) THEN FALSE
    ELSE SourceType(input) = EventSourceTypeGroup

(***************************************************************************)
(* EventToUserInput called on its own: one configuration, one event, and   *)
(* the call.                                                               *)
(***************************************************************************)
ConvConfigs ==
    [HelpCommand : {<<>>, DotHelp}, AbortCommand : {<<>>, DotAbort}]
    \cup {[HelpCommand |-> DotHelp, AbortCommand |-> DotHelp]}

ConvTexts ==
    { <<>>, <<" ">>, <<" ", "\t">>, Hello, <<" ">> \o Hello \o <<" ">>,
      DotHelp, <<" ">> \o DotHelp \o <<"\n">>, DotAbort, <<"\t">> \o DotAbort,
      <<"U+3000">> \o DotHelp, <<"U+00A0">> \o DotAbort \o <<"U+0085">>, <<"U+000B">> }

ConvMessages ==
    {TextMessage("m1", text) : text \in ConvTexts}
    \cup {LocationMessage("m2", title) : title \in {<<>>, Hello, DotHelp, DotAbort}}
    \cup {ImageMessage("m3"), VideoMessage("m4"), AudioMessage("m5"), StickerMessage("m6"),
          FileMessage("m7"), Nil}

ConvPostbacks == {Postback(data, params) : data \in ConvTexts, params \in {Nil, PickerParams}}

ConvSources == {SrcUser, SrcGroup, SrcRoom, SrcUnknown}

ConvEvents ==
    {MessageEvent(src, "r1", msg) : src \in ConvSources, msg \in ConvMessages}
    \cup {PostbackEv(src, "r2", pb) : src \in ConvSources, pb \in ConvPostbacks}
    \cup {FollowEvent(src, "r3") : src \in ConvSources}

InitConv ==
    /\ config \in ConvConfigs
    /\ pc = "convert"
    /\ \E event \in ConvEvents : events = <<event>>
    /\ idx = 1
    /\ handled = <<>>
    /\ enqueued = <<>>
    /\ enqueueErrs = 0
    /\ logs = <<>>
    /\ notified = <<>>
    /\ sends = <<>>
    /\ adapter = DefaultAdapter
    /\ building = Nil
    /\ served = <<>>
    /\ runCtx = "active"

\* The call: what it returns is kept in handled.
Convert ==
    /\ pc = "convert"
    /\ LET r == EventToUserInput(config, events[1])
       IN handled' = <<[did |-> "convert", input |-> r.input, err |-> r.err]>>
    /\ pc' = "converted"
    /\ UNCHANGED <<runCtx, adapter, building, served, config, events, idx, enqueued, enqueueErrs,
                   logs, notified, sends>>

NextConv == Convert

SpecConv == InitConv /\ [][NextConv]_vars

(***************************************************************************)
(* The listener over its life: Run, then the requests the HTTP server      *)
(* passes to the callbacks registered in listen and the replies the bot    *)
(* sends meanwhile, until ListenAndServe returns.  The server runs each     *)
(* callback on the goroutine of its request and the bot calls SendMessage  *)
(* on goroutines of its own, so a call of the event handler goes through   *)
(* its events one step at a time among the steps of the others, a reply    *)
(* waits in call.Do(), and both go on after ListenAndServe has returned.   *)
(* served keeps one record for each: the context it was given, its place   *)
(* in the loop, what it passed to enqueueInput and what it logged.         *)
(***************************************************************************)
\* defaultEventHandler from its call to its return: what it passed to
\* enqueueInput and what it logged.
RECURSIVE DefaultEventHandler(_, _)
DefaultEventHandler(cfg, evs) ==
    IF evs = <<>> THEN [enqueued |-> <<>>, logs |-> <<>>]
    ELSE LET event == Head(evs)
             rest == DefaultEventHandler(cfg, Tail(evs))
         IN IF ~IsUserInputEvent(event) THEN rest
            ELSE LET r == EventToUserInput(cfg, event)
                 IN IF r.err # NoErr
                      THEN [enqueued |-> rest.enqueued,
                            logs |-> <<"Error on event handling: " \o r.err \o ".">>
                                     \o rest.logs]
                      ELSE [enqueued |-> <<r.input>> \o rest.enqueued, logs |-> rest.logs]

\* The deliveries of this specification.
Deliveries ==
    { <<>>,
      <<MessageEvent(SrcUser, "r1", TextMessage("m1", Hello))>>,
      <<MessageEvent(SrcUnknown, "r3", TextMessage("m9", DotHelp)),
        MessageEvent(SrcUser, "r1", TextMessage("m1", Hello))>>,
      <<FollowEvent(SrcUser, "r1"),
        MessageEvent(SrcUser, "r1", FileMessage("m7")),
        MessageEvent(SrcGroup, "r2", TextMessage("m8", DotHelp))>> }

ServeError == "accept tcp: too many open files"

InitRun ==
    /\ config = NewConfig
    /\ pc = "init"
    /\ events = <<>>
    /\ idx = 1
    /\ handled = <<>>
    /\ enqueued = <<>>
    /\ enqueueErrs = 0
    /\ logs = <<>>
    /\ notified = <<>>
    /\ sends = <<>>
    /\ adapter \in {DefaultAdapter, CustomAdapter}
    /\ building = Nil
    /\ served = <<>>
    /\ runCtx = "active"

\* The callback given to handler.HandleEvents: the event handler is called
\* with the context of Run and the events of the request.
ServeEvents ==
    /\ pc = "listening"
    /\ Len(served) < MaxRequests
    /\ \E batch \in Deliveries :
          served' = Append(served,
              [kind |-> "events", handler |-> adapter.eventHandler, events |-> batch,
               ctx |-> runCtx, idx |-> 1, enqueued |-> <<>>, logs |-> <<>>,
               state |-> "running"])
    /\ UNCHANGED <<runCtx, adapter, building, config, pc, events, idx, handled, enqueued,
                   enqueueErrs, logs, notified, sends>>

\* One step of a running call of the event handler: an iteration of the
\* loop of defaultEventHandler, its return after the last one, or the
\* return of the handler given with WithEventHandler.
ServeEventStep ==
    /\ \E d \in 1..Len(served) :
          /\ served[d].kind = "events"
          /\ served[d].state = "running"
          /\ IF served[d].handler # "defaultEventHandler"
                \/ served[d].idx > Len(served[d].events)
               THEN served' = [served EXCEPT ![d].state = "returned"]
               ELSE LET event == served[d].events[served[d].idx]
                        r == EventToUserInput(config, event)
                        did == IF ~IsUserInputEvent(event) THEN "skip"
                               ELSE IF r.err # NoErr THEN "log" ELSE "enqueue"
                    IN served' = [served EXCEPT ![d] =
                           [@ EXCEPT !.idx = @ + 1,
                                     !.enqueued = IF did = "enqueue"
                                                    THEN Append(@, r.input) ELSE @,
                                     !.logs = IF did = "log"
                                                THEN Append(@, "Error on event handling: "
                                                               \o r.err \o ".")
                                                ELSE @]]
    /\ UNCHANGED <<runCtx, adapter, building, config, pc, events, idx, handled, enqueued,
                   enqueueErrs, logs, notified, sends>>

\* Mutant: the error of a request is passed to the notifier.
ServeRequestErrorNotifies ==
    /\ pc = "listening"
    /\ Len(served) < MaxRequests
    /\ served' = Append(served,
           [kind |-> "request error", handler |-> "HandleError", events |-> <<>>,
            ctx |-> runCtx, idx |-> 1, enqueued |-> <<>>, logs |-> <<>>,
            state |-> "returned"])
    /\ notified' = Append(notified, "invalid signature")
    /\ UNCHANGED <<runCtx, adapter, building, config, pc, events, idx, handled, enqueued,
                   enqueueErrs, logs, sends>>

\* The callback given to handler.HandleError: the request could not be
\* parsed or its signature is wrong.  The log has the dump of the request
\* when the dump succeeds.
ServeRequestError ==
    /\ pc = "listening"
    /\ Len(served) < MaxRequests
    /\ \E dumped \in BOOLEAN :
          LET log == IF dumped
                       THEN "error on request parsing and/or signature validation. error: invalid signature. request: dump."
                       ELSE "error on request parsing and/or signature validation: invalid signature."
          IN served' = Append(served,
                 [kind |-> "request error", handler |-> "HandleError", events |-> <<>>,
                  ctx |-> runCtx, idx |-> 1, enqueued |-> <<>>, logs |-> <<log>>,
                  state |-> "returned"])
    /\ UNCHANGED <<runCtx, adapter, building, config, pc, events, idx, handled, enqueued,
                   enqueueErrs, logs, notified, sends>>

\* SendMessage, called by the bot while the listener is up: the reply is
\* built and waits in call.Do().
ServeReply ==
    /\ pc = "listening"
    /\ Len(served) < MaxRequests
    /\ LET output == NewOutputMessage(GoString("r1"), NewStringResponse(Hello).Content)
           begun == SendMessage(output, NoErr)
       IN /\ begun.calls # <<>>
          /\ served' = Append(served,
                 [kind |-> "reply", handler |-> "SendMessage", events |-> <<>>,
                  ctx |-> runCtx, idx |-> 1, enqueued |-> <<>>, logs |-> <<>>,
                  state |-> "in flight"])
    /\ UNCHANGED <<runCtx, adapter, building, config, pc, events, idx, handled, enqueued,
                   enqueueErrs, logs, notified, sends>>

\* call.Do() of a waiting reply returns; its error is logged.
ServeReplyReturns ==
    /\ \E d \in 1..Len(served), err \in ReplyResults :
          /\ served[d].kind = "reply"
          /\ served[d].state = "in flight"
          /\ LET output == NewOutputMessage(GoString("r1"), NewStringResponse(Hello).Content)
                 done == SendMessage(output, err)
             IN served' = [served EXCEPT ![d] =
                    [@ EXCEPT !.logs = done.logs, !.state = "returned"]]
    /\ UNCHANGED <<runCtx, adapter, building, config, pc, events, idx, handled, enqueued,
                   enqueueErrs, logs, notified, sends>>

\* http.ListenAndServe returns its error: listen returns it and Run passes
\* it to notifyErr.  The callbacks and replies under way go on.
ServeFails ==
    /\ pc = "listening"
    /\ notified' = Append(notified, ServeError)
    /\ pc' = "stopped"
    /\ UNCHANGED <<runCtx, adapter, building, served, config, events, idx, handled, enqueued,
                   enqueueErrs, logs, sends>>

NextRun ==
    \/ RunFails
    \/ RunListens
    \/ ServeEvents
    \/ ServeEventStep
    \/ ServeRequestError
    \/ ServeReply
    \/ ServeReplyReturns
    \/ ServeFails

SpecRun == InitRun /\ [][NextRun]_vars

(***************************************************************************)
(* Deliveries handled at the same time.  The HTTP server runs the callback *)
(* of listen on a goroutine of its own for each request, so several calls  *)
(* of defaultEventHandler go on together, each with its own events and its *)
(* own place in the loop (served[d]), all with the one config and the one  *)
(* enqueueInput.  handled and enqueued keep the iterations and the calls   *)
(* of enqueueInput in the order they happened over all deliveries.         *)
(***************************************************************************)
ConcBatches ==
    { <<MessageEvent(SrcUser, "r1", TextMessage("m1", Hello))>>,
      <<FollowEvent(SrcUser, "r1"),
        MessageEvent(SrcUser, "r1", TextMessage("m4", <<" ">> \o Hello \o <<"\t">>)),
        MessageEvent(SrcGroup, "r2", TextMessage("m8", DotHelp))>>,
      <<MessageEvent(SrcUnknown, "r3", TextMessage("m9", DotHelp)),
        PostbackEv(SrcRoom, "r4", Postback(<<" ">> \o DotAbort, PickerParams)),
        MessageEvent(SrcUser, "r1", FileMessage("m7"))>> }

InitConc ==
    /\ config = NewConfig
    /\ pc = "listening"
    /\ events = <<>>
    /\ idx = 1
    /\ handled = <<>>
    /\ enqueued = <<>>
    /\ enqueueErrs = 0
    /\ logs = <<>>
    /\ notified = <<>>
    /\ sends = <<>>
    /\ adapter = DefaultAdapter
    /\ building = Nil
    /\ served = <<>>
    /\ runCtx = "active"

\* A request arrives: the callback calls the event handler with its events.
AcceptDelivery ==
    /\ pc = "listening"
    /\ Len(served) < MaxDeliveries
    /\ \E batch \in ConcBatches :
          served' = Append(served,
              [kind |-> "events", handler |-> adapter.eventHandler, events |-> batch,
               idx |-> 1])
    /\ UNCHANGED <<runCtx, adapter, building, config, pc, events, idx, handled, enqueued,
                   enqueueErrs, logs, notified, sends>>

\* Mutant: the deliveries go through their batches with one shared index.
DeliveryStepSharedIndex ==
    /\ pc = "listening"
    /\ \E d \in 1..Len(served) :
          /\ idx <= Len(served[d].events)
          /\ LET event == served[d].events[idx]
                 r == EventToUserInput(config, event)
                 did == IF ~IsUserInputEvent(event) THEN "skip"
                        ELSE IF r.err # NoErr THEN "log" ELSE "enqueue"
             IN /\ handled' = Append(handled,
                       [delivery |-> d, did |-> did,
                        input |-> IF did = "skip" THEN Nil ELSE r.input,
                        err |-> IF did = "skip" THEN NoErr ELSE r.err])
                /\ enqueued' = IF did = "enqueue" THEN Append(enqueued, r.input) ELSE enqueued
                /\ logs' = IF did = "log"
                             THEN Append(logs, "Error on event handling: " \o r.err \o ".")
                             ELSE logs
          /\ served' = [served EXCEPT ![d].idx = idx + 1]
          /\ idx' = idx + 1
    /\ UNCHANGED <<runCtx, adapter, building, config, pc, events, enqueueErrs, notified, sends>>

\* One iteration of the loop of defaultEventHandler in one of the
\* deliveries.
DeliveryStep ==
    /\ pc = "listening"
    /\ \E d \in 1..Len(served) :
          /\ served[d].idx <= Len(served[d].events)
          /\ LET event == served[d].events[served[d].idx]
                 r == EventToUserInput(config, event)
                 did == IF ~IsUserInputEvent(event) THEN "skip"
                        ELSE IF r.err # NoErr THEN "log" ELSE "enqueue"
             IN /\ handled' = Append(handled,
                       [delivery |-> d, did |-> did,
                        input |-> IF did = "skip" THEN Nil ELSE r.input,
                        err |-> IF did = "skip" THEN NoErr ELSE r.err])
                /\ enqueued' = IF did = "enqueue" THEN Append(enqueued, r.input) ELSE enqueued
                /\ logs' = IF did = "log"
                             THEN Append(logs, "Error on event handling: " \o r.err \o ".")
                             ELSE logs
          /\ served' = [served EXCEPT ![d].idx = @ + 1]
    /\ UNCHANGED <<runCtx, adapter, building, config, pc, events, idx, enqueueErrs, notified, sends>>

NextConc ==
    \/ AcceptDelivery
    \/ DeliveryStep

SpecConc == InitConc /\ [][NextConc]_vars

(***************************************************************************)
(* The context given to Run.  Run hands it to listen, and listen to the    *)
(* event handler with each batch; http.ListenAndServe does not take it.    *)
(* CancelContext is the caller's cancel().                                 *)
(***************************************************************************)
CancelContext ==
    /\ runCtx = "active"
    /\ pc \in {"init", "listening"}
    /\ runCtx' = "canceled"
    /\ UNCHANGED <<adapter, building, served, config, pc, events, idx, handled, enqueued,
                   enqueueErrs, logs, notified, sends>>

NextCancel ==
    \/ RunFails
    \/ RunListens
    \/ ServeEvents
    \/ ServeEventStep
    \/ ServeFails
    \/ CancelContext

\* Run goes on by itself; requests, cancel() and a failure of the server
\* come from outside.
SpecCancel == InitRun /\ [][NextCancel]_vars /\ WF_vars(RunFails \/ RunListens)

(***************************************************************************)
(* Vocabulary of the properties.                                           *)
(***************************************************************************)
RecognizedSourceTypes == {"user", "room", "group"}
KnownMessageKinds ==
    {"*linebot.TextMessage", "*linebot.ImageMessage", "*linebot.VideoMessage",
     "*linebot.AudioMessage", "*linebot.LocationMessage", "*linebot.StickerMessage"}

\* The identifier of a source that belongs to its type.
SourceID(src) ==
    CASE src.Type = "user" -> src.UserID
      [] src.Type = "room" -> src.RoomID
      [] src.Type = "group" -> src.GroupID

HasRecognizedSource(e) == e.Source.Type \in RecognizedSourceTypes

IsTextEvent(e) == e.Type = "message" /\ e.Message.Kind = "*linebot.TextMessage"
IsPostbackEvent(e) == e.Type = "postback"

\* The text a help / abort command is looked for in.
CommandText(e) == IF IsTextEvent(e) THEN e.Message.Text ELSE e.Postback.Data

AllSpace(s) == \A k \in 1..Len(s) : IsSpace(s[k])

\* t is text without its surrounding white space.
IsTrimOf(t, text) ==
    /\ t = <<>> \/ (~IsSpace(t[1]) /\ ~IsSpace(t[Len(t)]))
    /\ \E a \in 0..Len(text) :
          /\ a + Len(t) <= Len(text)
          /\ AllSpace(SubSeq(text, 1, a))
          /\ SubSeq(text, a + 1, a + Len(t)) = t
          /\ AllSpace(SubSeq(text, a + Len(t) + 1, Len(text)))

\* The events of the batch the loop has passed.
Passed == 1..Len(handled)

LoopDone == pc = "handling" /\ idx > Len(events)

\* A message event that cannot be converted, and an event that can.
FailsNormalization(e) ==
    /\ e.Type = "message"
    /\ ~HasRecognizedSource(e) \/ e.Message.Kind \notin KnownMessageKinds
Convertible(e) ==
    /\ e.Type \in {"message", "postback"}
    /\ HasRecognizedSource(e)
    /\ e.Type = "message" => e.Message.Kind \in KnownMessageKinds

(***************************************************************************)
(* C1.  For a source of type user, room or group SourceToSenderKey gives   *)
(* no error and the key "<type>|<identifier of that type>"; events with    *)
(* the same source type and identifier get the same key, and an input      *)
(* made by EventToUserInput reports that key from SenderKey().             *)
(***************************************************************************)
C1_SenderKey ==
    /\ \A i \in Passed :
          LET e == events[i]
          IN HasRecognizedSource(e) =>
                /\ SourceToSenderKey(e.Source) =
                      [key |-> e.Source.Type \o "|" \o SourceID(e.Source), err |-> NoErr]
                /\ handled[i].err # ErrUnrecognizedEventSource
                /\ handled[i].did = "enqueue" =>
                      SenderKey(handled[i].input) =
                          e.Source.Type \o "|" \o SourceID(e.Source)
    /\ \A i, j \in Passed :
          ( /\ handled[i].did = "enqueue"
            /\ handled[j].did = "enqueue"
            /\ events[i].Source.Type = events[j].Source.Type
            /\ SourceID(events[i].Source) = SourceID(events[j].Source) )
          => SenderKey(handled[i].input) = SenderKey(handled[j].input)

\* Two events of the same group sent by different users were enqueued, one
\* of them wrapped as a help input.
C1_Witness ==
    \E i, j \in Passed :
        /\ events[i].Source = SrcGroup
        /\ events[j].Source = SrcGroupOther
        /\ handled[i].did = "enqueue"
        /\ handled[j].did = "enqueue"
        /\ handled[i].input.Kind = "*sarah.HelpInput"
        /\ SenderKey(handled[i].input) = "group|G1"
        /\ SenderKey(handled[j].input) = "group|G1"

(***************************************************************************)
(* C2.  A message or postback event whose source type is not user, room    *)
(* or group gives ErrUnrecognizedEventSource and a nil input whatever its  *)
(* message subtype or postback data, and nothing is enqueued for it.       *)
(***************************************************************************)
C2_UnrecognizedSource ==
    /\ \A i \in Passed :
          (events[i].Type \in {"message", "postback"} /\ ~HasRecognizedSource(events[i]))
          => handled[i] = [did |-> "log", input |-> Nil, err |-> ErrUnrecognizedEventSource]
    /\ Len(enqueued) = Cardinality({i \in Passed : handled[i].did = "enqueue"})

\* A file message and a postback, both of an unrecognized source, were passed.
C2_Witness ==
    \E i, j \in Passed :
        /\ ~HasRecognizedSource(events[i])
        /\ events[i].Type = "message"
        /\ events[i].Message.Kind = "*linebot.FileMessage"
        /\ ~HasRecognizedSource(events[j])
        /\ events[j].Type = "postback"
        /\ handled[i].err = ErrUnrecognizedEventSource
        /\ handled[j].err = ErrUnrecognizedEventSource
        /\ enqueued = <<>>

(***************************************************************************)
(* C3.  For a text message or postback event of a recognized source: when  *)
(* the trimmed text equals the non-empty help command the enqueued value   *)
(* is a help input; when it equals the non-empty abort command and not the *)
(* help command it is an abort input.                                      *)
(***************************************************************************)
C3_HelpAbortWrapped ==
    \A i \in Passed :
        LET e == events[i]
        IN (HasRecognizedSource(e) /\ (IsTextEvent(e) \/ IsPostbackEvent(e))) =>
              /\ (config.HelpCommand # <<>> /\ IsTrimOf(config.HelpCommand, CommandText(e)))
                 => /\ handled[i].did = "enqueue"
                    /\ handled[i].input.Kind = "*sarah.HelpInput"
                    /\ handled[i].input.OriginalInput.Kind
                          \in {"*line.TextInput", "*line.PostbackEvent"}
              /\ ( /\ config.AbortCommand # <<>>
                   /\ IsTrimOf(config.AbortCommand, CommandText(e))
                   /\ ~IsTrimOf(config.HelpCommand, CommandText(e)) )
                 => /\ handled[i].did = "enqueue"
                    /\ handled[i].input.Kind = "*sarah.AbortInput"

\* A text of an ideographic space, ".help" and "\n" became a help input and a postback " .abort" an abort
\* input, under the default configuration.
C3_Witness ==
    /\ config = NewConfig
    /\ \E i, j \in Passed :
          /\ IsTextEvent(events[i])
          /\ events[i].Message.Text = <<"U+3000">> \o DotHelp \o <<"\n">>
          /\ handled[i].input.Kind = "*sarah.HelpInput"
          /\ IsPostbackEvent(events[j])
          /\ events[j].Postback.Data = <<" ">> \o DotAbort
          /\ handled[j].input.Kind = "*sarah.AbortInput"
          /\ Len(enqueued) >= 2

(***************************************************************************)
(* C4.  For a text message event of a recognized source whose trimmed text *)
(* equals neither command, the enqueued value is a plain TextInput whose   *)
(* Message() is the text as received, surrounding white space included.    *)
(***************************************************************************)
C4_PlainTextKept ==
    \A i \in Passed :
        LET e == events[i]
        IN ( /\ HasRecognizedSource(e)
             /\ IsTextEvent(e)
             /\ ~IsTrimOf(config.HelpCommand, e.Message.Text)
             /\ ~IsTrimOf(config.AbortCommand, e.Message.Text) )
           => /\ handled[i].did = "enqueue"
              /\ handled[i].input.Kind = "*line.TextInput"
              /\ Message(handled[i].input) = e.Message.Text

\* The text " hello\t" was enqueued with its white space.
C4_Witness ==
    \E k \in 1..Len(enqueued) :
        /\ enqueued[k].Kind = "*line.TextInput"
        /\ Message(enqueued[k]) = <<" ", "h", "e", "l", "l", "o", "\t">>

(***************************************************************************)
(* C5.  An event that fails normalization is logged and skipped, and the   *)
(* other events of the batch are still processed: a batch with exactly one *)
(* failing message event among convertible message / postback events ends  *)
(* with (batch size - 1) enqueue calls, wherever the failing event is.     *)
(***************************************************************************)
C5_BatchContinues ==
    LoopDone =>
        /\ Len(handled) = Len(events)
        /\ \A i \in 1..Len(events) :
              /\ Convertible(events[i]) => handled[i].did = "enqueue"
              /\ FailsNormalization(events[i]) => handled[i].did = "log"
        /\ ( /\ Cardinality({i \in 1..Len(events) : FailsNormalization(events[i])}) = 1
             /\ \A i \in 1..Len(events) :
                   FailsNormalization(events[i]) \/ Convertible(events[i]) )
           => /\ Len(enqueued) = Len(events) - 1
              /\ Len(logs) = 1

\* A batch of three whose first event fails ended with two enqueue calls.
C5_Witness ==
    /\ LoopDone
    /\ Len(events) = 3
    /\ FailsNormalization(events[1])
    /\ Convertible(events[2])
    /\ Convertible(events[3])
    /\ Len(enqueued) = 2
    /\ Len(logs) = 1

(***************************************************************************)
(* C6.  The enqueue calls are the order-preserving image of the batch's    *)
(* convertible events, at most one call per event; the batch               *)
(* [text "hello", text ".abort"] with abort command ".abort" gives         *)
(* [TextInput("hello"), AbortInput] in that order.                         *)
(***************************************************************************)
ConvertiblePassed == SelectSeq(SubSeq(events, 1, Len(handled)), Convertible)

C6_EnqueueOrder ==
    /\ pc = "handling" =>
          /\ Len(enqueued) = Len(ConvertiblePassed)
          /\ Len(enqueued) <= idx - 1
          /\ \A k \in 1..Len(enqueued) :
                enqueued[k] = EventToUserInput(config, ConvertiblePassed[k]).input
    /\ ( /\ LoopDone
         /\ config.AbortCommand = DotAbort
         /\ Len(events) = 2
         /\ IsTextEvent(events[1]) /\ events[1].Message.Text = Hello
         /\ IsTextEvent(events[2]) /\ events[2].Message.Text = DotAbort
         /\ HasRecognizedSource(events[1]) /\ HasRecognizedSource(events[2]) )
       => /\ Len(enqueued) = 2
          /\ enqueued[1].Kind = "*line.TextInput"
          /\ Message(enqueued[1]) = Hello
          /\ enqueued[2].Kind = "*sarah.AbortInput"
          /\ Message(enqueued[2]) = DotAbort

\* The batch [text "hello", text ".abort"] was handled to its end.
C6_Witness ==
    /\ LoopDone
    /\ config.AbortCommand = DotAbort
    /\ Len(events) = 2
    /\ IsTextEvent(events[1]) /\ events[1].Message.Text = Hello
    /\ IsTextEvent(events[2]) /\ events[2].Message.Text = DotAbort
    /\ Len(enqueued) = 2
    /\ enqueued[1].Kind = "*line.TextInput"
    /\ enqueued[2].Kind = "*sarah.AbortInput"

(***************************************************************************)
(* C7.  When enqueueInput returns an error for an input, the default event *)
(* handler reports that failure to an error callback (and does not raise   *)
(* it to the HTTP handler): every failed enqueue call is matched by an     *)
(* error handed to the callback.                                           *)
(***************************************************************************)
C7_EnqueueFailureReported ==
    pc = "handling" => Len(notified) >= enqueueErrs

(***************************************************************************)
(* C8.  A response built by NewStringResponse(s), sent to a string reply   *)
(* token, gives exactly one call of the reply endpoint with exactly one    *)
(* text message whose content is s.                                        *)
(***************************************************************************)
C8_StringResponseRoundTrip ==
    \A i \in 1..Len(sends) :
        (sends[i].ctor = "NewStringResponse" /\ sends[i].output.Destination.Kind = "string")
        => /\ Len(sends[i].calls) = 1
           /\ sends[i].calls[1].replyToken = sends[i].output.Destination.Value
           /\ Len(sends[i].calls[1].messages) = 1
           /\ sends[i].calls[1].messages[1].Kind = "*linebot.TextMessage"
           /\ sends[i].calls[1].messages[1].Text = sends[i].arg

\* The current version sent NewStringResponse(" hello") as one text message.
C8_Witness ==
    \E i \in 1..Len(sends) :
        /\ sends[i].version = "v2"
        /\ sends[i].ctor = "NewStringResponse"
        /\ sends[i].arg = <<" ", "h", "e", "l", "l", "o">>
        /\ Len(sends[i].calls) = 1
        /\ sends[i].calls[1].messages = <<NewTextMessage(<<" ", "h", "e", "l", "l", "o">>)>>

(***************************************************************************)
(* C9.  The content of a response built by NewMultipleCustomizedResponses  *)
(* or NewMultipleCustomizedResponsesWithNext, sent by the current          *)
(* SendMessage to a string reply token, goes out in one reply call that    *)
(* carries all of its messages in order.                                   *)
(***************************************************************************)
IsMultipleCtor(ctor) ==
    ctor \in {"NewMultipleCustomizedResponses", "NewMultipleCustomizedResponsesWithNext"}

C9_MultipleResponsesDelivered ==
    \A i \in 1..Len(sends) :
        ( /\ sends[i].version = "v2"
          /\ IsMultipleCtor(sends[i].ctor)
          /\ sends[i].output.Destination.Kind = "string" )
        => /\ Len(sends[i].calls) = 1
           /\ sends[i].calls[1].messages = sends[i].arg

\* The SendMessage before the current one has a []linebot.Message case and
\* sends such a content in one call.
EarlierVersionDeliversMultiple ==
    \A i \in 1..Len(sends) :
        ( /\ sends[i].version = "v1"
          /\ IsMultipleCtor(sends[i].ctor)
          /\ sends[i].output.Destination.Kind = "string" )
        => /\ Len(sends[i].calls) = 1
           /\ sends[i].calls[1].messages = sends[i].arg

(***************************************************************************)
(* C10.  When the reply send fails SendMessage logs the error and returns: *)
(* one invocation makes at most one call of the reply endpoint, and a      *)
(* failed send changes nothing for the invocations after it.               *)
(***************************************************************************)
C10_ReplyFailureLogged ==
    /\ \A i \in 1..Len(sends) :
          /\ Len(sends[i].calls) <= 1
          /\ (sends[i].err # NoErr /\ Len(sends[i].calls) = 1)
             => sends[i].logs = <<"error on message reply: " \o sends[i].err>>
          /\ (sends[i].err = NoErr /\ Len(sends[i].calls) = 1) => sends[i].logs = <<>>
    /\ \A i, j \in 1..Len(sends) :
          ( /\ sends[i].version = sends[j].version
            /\ sends[i].output = sends[j].output
            /\ sends[i].err = sends[j].err )
          => (sends[i].calls = sends[j].calls /\ sends[i].logs = sends[j].logs)

\* A send failed and was logged; the same output was then sent again and
\* went out.
C10_Witness ==
    /\ Len(sends) = 2
    /\ sends[1].err # NoErr
    /\ Len(sends[1].calls) = 1
    /\ Len(sends[1].logs) = 1
    /\ sends[2].output = sends[1].output
    /\ sends[2].version = sends[1].version
    /\ sends[2].state = "returned"
    /\ sends[2].err = NoErr
    /\ Len(sends[2].calls) = 1
    /\ sends[2].logs = <<>>

(***************************************************************************)
(* C11.  The reply request runs under the caller's context with a timeout  *)
(* of 5 seconds: when the caller's context is done at the start of the     *)
(* dispatch the request is not sent, when it is cancelled while the        *)
(* request is in flight, or the answer takes 5 seconds or more, the        *)
(* request is aborted; the failure is logged and SendMessage returns.      *)
(***************************************************************************)
C11_ReplyUnderContext ==
    \A i \in 1..Len(sends) :
        LET s == sends[i]
        IN s.state = "returned" =>
           /\ Len(s.calls) = 1
           /\ (s.ctx.cancels /\ s.ctx.after = 0)
              => /\ s.wire = "not sent"
                 /\ s.logs = <<"error on message reply: " \o s.ctx.err>>
           /\ (s.ctx.cancels /\ 0 < s.ctx.after /\ s.ctx.after < 5 /\ s.ctx.after <= s.latency)
              => /\ s.wire = "aborted"
                 /\ s.logs = <<"error on message reply: " \o s.ctx.err>>
           /\ s.latency >= 5
              => /\ s.wire # "completed"
                 /\ Len(s.logs) = 1
           /\ s.wire = "completed" => s.latency < 5

\* A send under a context that was done already was not sent and logged, a
\* send cancelled in flight was aborted and logged.
C11_Witness ==
    /\ Len(sends) = 2
    /\ sends[1].ctx = Context(TRUE, 0, "context deadline exceeded")
    /\ sends[1].wire = "not sent"
    /\ sends[1].logs = <<"error on message reply: context deadline exceeded">>
    /\ sends[2].ctx = Context(TRUE, 2, "context canceled")
    /\ sends[2].latency = 3
    /\ sends[2].wire = "aborted"
    /\ sends[2].logs = <<"error on message reply: context canceled">>

(***************************************************************************)
(* C12.  A help listing given to SendMessage is sent in one reply call     *)
(* that carries one text message per listed command, in the order of the   *)
(* listing, each with the command's instruction (its input example in the  *)
(* version before).                                                        *)
(***************************************************************************)
HelpField(version) == IF version = "v2" THEN "Instruction" ELSE "InputExample"

C12_HelpListingExpanded ==
    \A i \in 1..Len(sends) :
        ( /\ sends[i].version \in {"v2", "v1"}
          /\ sends[i].output.Content.Kind = "*sarah.CommandHelps"
          /\ sends[i].output.Destination.Kind = "string" )
        => LET helps == sends[i].output.Content.Value
           IN /\ Len(sends[i].calls) = 1
              /\ sends[i].calls[1].replyToken = sends[i].output.Destination.Value
              /\ Len(sends[i].calls[1].messages) = Len(helps)
              /\ \A k \in 1..Len(helps) :
                    /\ sends[i].calls[1].messages[k].Kind = "*linebot.TextMessage"
                    /\ sends[i].calls[1].messages[k].Text = helps[k][HelpField(sends[i].version)]

\* A listing of two commands went out as two text messages in one call.
C12_Witness ==
    \E i \in 1..Len(sends) :
        /\ sends[i].version = "v2"
        /\ sends[i].output.Content = CommandHelps(HelpListing)
        /\ Len(sends[i].calls) = 1
        /\ sends[i].calls[1].messages = <<NewTextMessage(<<".", "e">>), NewTextMessage(Hello)>>

(***************************************************************************)
(* C13.  SendMessage calls the reply endpoint not at all, and logs once,   *)
(* when the content is neither a sending message, nor a slice of sending   *)
(* messages, nor a help listing, and when the destination is not a string. *)
(***************************************************************************)
C13_UnexpectedOutputDropped ==
    \A i \in 1..Len(sends) :
        /\ ( /\ sends[i].version = "v2"
             /\ sends[i].output.Content.Kind \notin
                   SendingMessageTypes \cup {"[]linebot.SendingMessage", "*sarah.CommandHelps"} )
           => /\ sends[i].calls = <<>>
              /\ Len(sends[i].logs) = 1
        /\ sends[i].output.Destination.Kind # "string"
           => /\ sends[i].calls = <<>>
              /\ sends[i].logs = <<"destination is not string.">>

\* One output of an unexpected content and one of a destination that is not
\* a string were dropped with a log each.
C13_Witness ==
    /\ Len(sends) = 2
    /\ sends[1].version = "v2"
    /\ sends[1].output = NewOutputMessage(GoString("r1"), GoInt(7))
    /\ sends[1].calls = <<>>
    /\ sends[1].logs = <<"unexpected output">>
    /\ sends[2].version = "v2"
    /\ sends[2].output = NewOutputMessage(GoInt(1), NewTextMessage(Hello))
    /\ sends[2].calls = <<>>
    /\ sends[2].logs = <<"destination is not string.">>

(***************************************************************************)
(* C19.  NewAdapter of the versions that take options never panics: it     *)
(* returns no adapter and the error of the first option that fails, or,    *)
(* when no option fails and none has set a client, the error of the client *)
(* construction; with a client set by WithClient no client is built and    *)
(* the call succeeds whatever the credentials.  The first version panics   *)
(* when the client cannot be built.                                        *)
(***************************************************************************)
Fails(option) == option.opt = "AdapterOption"

\* The client the options leave in the adapter (Nil: none).
RECURSIVE SuppliedClient(_)
SuppliedClient(options) ==
    IF options = <<>> THEN Nil
    ELSE LET last == options[Len(options)]
         IN IF last.opt = "WithClient" THEN last.client
            ELSE SuppliedClient(SubSeq(options, 1, Len(options) - 1))

\* The client can be built from the configuration.
ValidCredentialsGiven(cfg) ==
    /\ cfg.ChannelSecret # ""
    /\ cfg.ChannelToken # ""
    /\ \A k \in 1..Len(cfg.ClientOptions) : cfg.ClientOptions[k].err = NoErr

C19_ConstructorErrors ==
    building # Nil /\ building.result # Nil
    => LET options == building.options
           result == building.result
           failing == {k \in 1..Len(options) : Fails(options[k])}
       IN IF building.version = "v0"
            THEN /\ ValidCredentialsGiven(building.config)
                    <=> (result.panic = NoPanic /\ result.adapter # Nil)
                 /\ result.err = NoErr
                 /\ result.adapter # Nil
                    => result.adapter.eventHandler =
                          IF building.call = "NewAdapterWithHandler"
                            THEN "customHandler" ELSE "defaultEventHandler"
            ELSE /\ result.panic = NoPanic
                 /\ (result.adapter = Nil) <=> (result.err # NoErr)
                 /\ failing # {}
                    => /\ result.adapter = Nil
                       /\ \E k \in failing :
                             /\ \A j \in failing : k <= j
                             /\ result.err = options[k].err
                       /\ ~result.built
                 /\ (failing = {} /\ SuppliedClient(options) # Nil)
                    => /\ result.err = NoErr
                       /\ result.adapter.client = SuppliedClient(options)
                       /\ ~result.built
                 /\ (failing = {} /\ SuppliedClient(options) = Nil)
                    => /\ result.built
                       /\ (result.err = NoErr) <=> ValidCredentialsGiven(building.config)
                       /\ result.err = NoErr => result.adapter.client = Client("linebot.New")

\* NewAdapter was called without credentials and without options: it
\* returned no adapter and an error.
C19_Witness ==
    /\ building # Nil
    /\ building.version = "v2"
    /\ building.config = [ChannelSecret |-> "", ChannelToken |-> "token", ClientOptions |-> <<>>]
    /\ building.options = <<>>
    /\ building.result # Nil
    /\ building.result.adapter = Nil
    /\ building.result.err = "error on linebot.Client construction: missing channel secret"
    /\ building.result.panic = NoPanic

(***************************************************************************)
(* C14.  The default event handler passes an event that is neither a       *)
(* message nor a postback without enqueueing or logging anything and goes  *)
(* on with the rest of the batch; with a handler given to WithEventHandler *)
(* that handler is called with the whole batch and the default handler is  *)
(* not.                                                                    *)
(***************************************************************************)
C14_OtherEventsIgnored ==
    /\ pc = "handling"
       => /\ adapter.eventHandler = "defaultEventHandler"
          /\ served = <<>>
          /\ \A k \in 1..Len(handled) :
                ~IsUserInputEvent(events[k])
                => handled[k] = [did |-> "skip", input |-> Nil, err |-> NoErr]
          /\ Len(enqueued) + Len(logs)
                = Cardinality({k \in 1..Len(handled) : IsUserInputEvent(events[k])})
          /\ LoopDone => Len(handled) = Len(events)
    /\ pc = "handlingCustom"
       => /\ adapter.eventHandler = "customHandler"
          /\ served = <<[handler |-> "customHandler", config |-> config, events |-> events]>>
          /\ handled = <<>>
          /\ enqueued = <<>>
          /\ logs = <<>>

\* A batch of a follow event, a text message and another follow event went
\* through the default handler: the message alone was enqueued.
C14_Witness ==
    /\ LoopDone
    /\ config = NewConfig
    /\ events = <<FollowEvent(SrcUser, "r1"),
                  MessageEvent(SrcUser, "r1", TextMessage("m1", Hello)),
                  FollowEvent(SrcUser, "r1")>>
    /\ Len(enqueued) = 1
    /\ Message(enqueued[1]) = Hello
    /\ logs = <<>>
    /\ handled[1].did = "skip"
    /\ handled[3].did = "skip"

(***************************************************************************)
(* C20.  Every input the default event handler enqueues, wrapped in a      *)
(* Help or Abort input or not, implements SourceTyper, and of              *)
(* IsSourceUser, IsSourceRoom and IsSourceGroup exactly the one of the     *)
(* event's source type is true of it.                                      *)
(***************************************************************************)
SourceTypedAs(input, event) ==
    /\ ImplementsSourceTyper(input)
    /\ IsSourceUser(input) <=> event.Source.Type = EventSourceTypeUser
    /\ IsSourceRoom(input) <=> event.Source.Type = EventSourceTypeRoom
    /\ IsSourceGroup(input) <=> event.Source.Type = EventSourceTypeGroup

C20_InputsAreSourceTyped ==
    pc = "handling"
    => \A k \in Passed :
          handled[k].did = "enqueue" => SourceTypedAs(handled[k].input, events[k])

\* What does hold: the inputs that are not wrapped are source typed.
PlainInputsAreSourceTyped ==
    pc = "handling"
    => \A k \in Passed :
          (handled[k].did = "enqueue" /\ ~IsWrapped(handled[k].input))
          => SourceTypedAs(handled[k].input, events[k])

(***************************************************************************)
(* C15.  With an empty help command no text and no postback converts to a  *)
(* Help input, an empty or white-space text included, and likewise for an  *)
(* empty abort command; the command that is not empty is still detected.   *)
(***************************************************************************)
Converted == pc = "converted"

C15_EmptyCommandDisables ==
    Converted
    => LET event == events[1]
           input == handled[1].input
       IN /\ (config.HelpCommand = <<>> /\ input # Nil) => input.Kind # "*sarah.HelpInput"
          /\ (config.AbortCommand = <<>> /\ input # Nil) => input.Kind # "*sarah.AbortInput"
          /\ ( /\ HasRecognizedSource(event)
               /\ IsTextEvent(event) \/ IsPostbackEvent(event) )
             => /\ ( /\ config.HelpCommand = <<>>
                     /\ config.AbortCommand # <<>>
                     /\ TrimSpace(CommandText(event)) = config.AbortCommand )
                   => input.Kind = "*sarah.AbortInput"
                /\ ( /\ config.AbortCommand = <<>>
                     /\ config.HelpCommand # <<>>
                     /\ TrimSpace(CommandText(event)) = config.HelpCommand )
                   => input.Kind = "*sarah.HelpInput"

\* A text of white space was converted under an empty help command: it is
\* a plain text input.
C15_Witness ==
    /\ Converted
    /\ config = [HelpCommand |-> <<>>, AbortCommand |-> DotAbort]
    /\ events[1] = MessageEvent(SrcUser, "r1", TextMessage("m1", <<" ", "\t">>))
    /\ handled[1].err = NoErr
    /\ handled[1].input.Kind = "*line.TextInput"
    /\ handled[1].input.text = <<" ", "\t">>

(***************************************************************************)
(* C16.  A message event of a recognized source converts by its subtype:   *)
(* text to a text input, image, video and audio to a file input of that    *)
(* type with an empty message, location to a location input whose message  *)
(* is the title, sticker to a sticker input with an empty message; any     *)
(* other subtype gives the error "unknown message type" and no input.      *)
(* File, location and sticker inputs are never wrapped.                    *)
(***************************************************************************)
FileTypeOf(kind) ==
    CASE kind = "*linebot.ImageMessage" -> "image"
      [] kind = "*linebot.VideoMessage" -> "video"
      [] kind = "*linebot.AudioMessage" -> "audio"

C16_SubtypeToVariant ==
    (Converted /\ events[1].Type = "message" /\ HasRecognizedSource(events[1]))
    => LET message == events[1].Message
           input == handled[1].input
           err == handled[1].err
       IN CASE message.Kind = "*linebot.TextMessage" ->
                 /\ err = NoErr
                 /\ Unwrap(input).Kind = "*line.TextInput"
            [] message.Kind \in {"*linebot.ImageMessage", "*linebot.VideoMessage",
                                 "*linebot.AudioMessage"} ->
                 /\ err = NoErr
                 /\ input.Kind = "*line.FileInput"
                 /\ input.Type = FileTypeOf(message.Kind)
                 /\ input.ID = message.ID
                 /\ Message(input) = <<>>
            [] message.Kind = "*linebot.LocationMessage" ->
                 /\ err = NoErr
                 /\ input.Kind = "*line.LocationInput"
                 /\ Message(input) = message.Title
                 /\ input.Location.Address = message.Address
                 /\ input.Location.Latitude = message.Latitude
                 /\ input.Location.Longitude = message.Longitude
            [] message.Kind = "*linebot.StickerMessage" ->
                 /\ err = NoErr
                 /\ input.Kind = "*line.StickerInput"
                 /\ Message(input) = <<>>
            [] OTHER ->
                 /\ input = Nil
                 /\ err = IF message = Nil THEN "unknown message type: <nil>"
                          ELSE "unknown message type: " \o message.Kind

\* A location whose title is the help command was converted: it is a
\* location input, not a Help input.
C16_Witness ==
    /\ Converted
    /\ config = NewConfig
    /\ events[1] = MessageEvent(SrcGroup, "r1", LocationMessage("m2", DotHelp))
    /\ handled[1].input.Kind = "*line.LocationInput"
    /\ Message(handled[1].input) = DotHelp

(***************************************************************************)
(* C17.  A postback event of a recognized source whose trimmed data is no  *)
(* enabled command converts to a postback input whose message is the data  *)
(* as it came, whose reply token and time are the event's, and whose       *)
(* Params is set when the event has picker parameters and nil when not.    *)
(***************************************************************************)
IsEnabledCommand(cfg, t) ==
    \/ cfg.HelpCommand # <<>> /\ t = cfg.HelpCommand
    \/ cfg.AbortCommand # <<>> /\ t = cfg.AbortCommand

C17_PostbackInput ==
    ( /\ Converted
      /\ IsPostbackEvent(events[1])
      /\ HasRecognizedSource(events[1])
      /\ ~IsEnabledCommand(config, TrimSpace(events[1].Postback.Data)) )
    => LET event == events[1]
           input == handled[1].input
       IN /\ handled[1].err = NoErr
          /\ input.Kind = "*line.PostbackEvent"
          /\ Message(input) = event.Postback.Data
          /\ ReplyTo(input) = event.ReplyToken
          /\ SentAt(input) = event.Timestamp
          /\ SenderKey(input) = SourceToSenderKey(event.Source).key
          /\ (input.Params = Nil) <=> (event.Postback.Params = Nil)
          /\ event.Postback.Params # Nil
             => /\ input.Params.Date = event.Postback.Params.Date
                /\ input.Params.Time = event.Postback.Params.Time
                /\ input.Params.Datetime = event.Postback.Params.Datetime

\* A postback with picker parameters and data in white space was converted.
C17_Witness ==
    /\ Converted
    /\ config = NewConfig
    /\ events[1] = PostbackEv(SrcRoom, "r2", Postback(<<" ">> \o Hello \o <<" ">>, PickerParams))
    /\ handled[1].input.Kind = "*line.PostbackEvent"
    /\ handled[1].input.data = <<" ", "h", "e", "l", "l", "o", " ">>
    /\ handled[1].input.Params = [Date |-> "2020-01-01", Time |-> "", Datetime |-> ""]

(***************************************************************************)
(* C18.  notifyErr is called when listen returns an error, once and with   *)
(* that error, and not otherwise: a request that cannot be parsed, an      *)
(* event that cannot be converted and a reply that fails leave the         *)
(* notifier uncalled and the listener up for the next delivery.            *)
(***************************************************************************)
C18_NotifierOnlyOnFatal ==
    /\ [](/\ Len(notified) <= 1
          /\ notified # <<>> <=> pc = "stopped"
          /\ notified # <<>> => notified[1] \in ListenErrors \cup {ServeError}
          /\ served # <<>> => pc \in {"listening", "stopped"})
    /\ [][served' # served => (pc' = pc /\ notified' = notified)]_vars
    /\ [][Len(served') > Len(served) => (pc = "listening" /\ notified = <<>>)]_vars

\* The listener went through a bad request and a failed reply, both returned
\* with their log, and then a delivery whose first event cannot be
\* converted: the error was logged, the event after it was enqueued, and
\* the notifier is uncalled.
C18_Witness ==
    /\ pc = "listening"
    /\ notified = <<>>
    /\ Len(served) = 3
    /\ \A d \in 1..3 : served[d].state = "returned"
    /\ served[1].kind = "request error"
    /\ Len(served[1].logs) = 1
    /\ served[2].kind = "reply"
    /\ served[2].logs = <<"error on message reply: linebot: APIError 400 Invalid reply token">>
    /\ served[3].kind = "events"
    /\ served[3].logs = <<"Error on event handling: " \o ErrUnrecognizedEventSource \o ".">>
    /\ Len(served[3].enqueued) = 1

\* A call of defaultEventHandler that has returned passed on and logged
\* what DefaultEventHandler gives for its events, whatever went on beside it.
ServedAgreesWithHandler ==
    \A d \in 1..Len(served) :
        (served[d].kind = "events" /\ served[d].handler = "defaultEventHandler"
         /\ served[d].state = "returned")
        => DefaultEventHandler(config, served[d].events)
           = [enqueued |-> served[d].enqueued, logs |-> served[d].logs]

\* The loop of defaultEventHandler taken step by step comes to what
\* DefaultEventHandler gives for the batch.
LoopAgreesWithHandler ==
    LoopDone => DefaultEventHandler(config, events) = [enqueued |-> enqueued, logs |-> logs]

(***************************************************************************)
(* C23.  An error returned by enqueueInput does not end the loop of the    *)
(* default event handler: at the end of a batch enqueueInput was called    *)
(* once for each event of the batch that converts, however many of the     *)
(* calls failed.                                                           *)
(***************************************************************************)
C23_EnqueueAttemptsIndependent ==
    /\ pc = "handling" => enqueueErrs <= Len(enqueued)
    /\ LoopDone
       => /\ Len(handled) = Len(events)
          /\ Len(enqueued) = Cardinality({i \in 1..Len(events) : Convertible(events[i])})

\* A batch of three events that convert was handled to its end with every
\* call of enqueueInput failing: three calls were made.
C23_Witness ==
    /\ LoopDone
    /\ Len(events) = 3
    /\ \A i \in 1..3 : Convertible(events[i])
    /\ enqueueErrs = 3
    /\ Len(enqueued) = 3

(***************************************************************************)
(* C21.  Deliveries handled at the same time do not disturb each other:    *)
(* in every interleaving the calls of enqueueInput a delivery has made are *)
(* those the default event handler makes for the events it has passed when *)
(* it runs alone, in the order of its batch, and the same for the errors   *)
(* it has logged; no step writes the configuration or the adapter.         *)
(***************************************************************************)
\* The iterations of delivery d that did `did`, in the order they happened.
StepsOf(d, did) ==
    LET Mine(h) == h.delivery = d /\ h.did = did
    IN SelectSeq(handled, Mine)

InputsOf(steps) == [k \in 1..Len(steps) |-> steps[k].input]

EnqueuedInputs ==
    LET Enqueues(h) == h.did = "enqueue"
    IN InputsOf(SelectSeq(handled, Enqueues))

C21_DeliveriesIndependent ==
    /\ [](/\ \A d \in 1..Len(served) :
                LET alone == DefaultEventHandler(config,
                                 SubSeq(served[d].events, 1, served[d].idx - 1))
                IN /\ InputsOf(StepsOf(d, "enqueue")) = alone.enqueued
                   /\ Len(StepsOf(d, "log")) = Len(alone.logs)
          /\ enqueued = EnqueuedInputs)
    /\ [][config' = config /\ adapter' = adapter]_vars

\* Two deliveries of three events each went to their ends, their
\* iterations taking turns.
C21_Witness ==
    /\ Len(served) = 2
    /\ Len(served[1].events) = 3
    /\ Len(served[2].events) = 3
    /\ served[1].events # served[2].events
    /\ served[1].idx = 4
    /\ served[2].idx = 4
    /\ Len(handled) = 6
    /\ \A k \in 1..6 : handled[k].delivery = IF k % 2 = 1 THEN 1 ELSE 2
    /\ Len(enqueued) = 3

(***************************************************************************)
(* C22.  After the context given to Run is cancelled Run returns, and no   *)
(* input is enqueued for a delivery that arrives after the cancellation.   *)
(***************************************************************************)
RunReturned == pc = "stopped"

C22_CancelStopsListener ==
    /\ (runCtx = "canceled") ~> RunReturned
    /\ [](\A d \in 1..Len(served) :
            served[d].ctx = "canceled" => served[d].enqueued = <<>>)

\* What does hold: Run returns when, and only when, listen has returned an
\* error, whatever the context.
RunReturnsOnListenErrorOnly == RunReturned <=> notified # <<>>

====
